---- MODULE Spec2Model ----
(***************************************************************************)
(* SwiftTrack middleware: the order service's saga coordinator             *)
(* (services/order-service/index.js), its circuit breaker registry and     *)
(* retry executor, the orders table it persists to (OrderRepository and    *)
(* the order_status enum of the schema), the Kafka topic it publishes to,  *)
(* and the driver service's delivery-status update on the same table.      *)
(*                                                                         *)
(* Node runs one callback at a time: every action below is the code that   *)
(* runs between two awaits.  Time is the wall clock in milliseconds,       *)
(* advanced by Tick.  The orders table accepts every write whose status is *)
(* a value of the order_status enum and rejects the others.                *)
(*                                                                         *)
(* A behaviour is one of two families, fixed by Init: two clients submit   *)
(* orders concurrently against a broker that accepts every publish; or one *)
(* client submits an order while the broker may reject publishes and an    *)
(* operator may trigger a manual recovery.                                 *)
(***************************************************************************)
EXTENDS Integers, Sequences, FiniteSets, TLC

VARIABLES now, serviceHealth, reqPc, response, db, pending, saga, hist,
          published, clients, rejectsLeft, recoveriesLeft, driverReq,
          request, statusReq, downstream, resultOk, healthReq, rosCall

vars == <<now, serviceHealth, reqPc, response, db, pending, saga, hist,
          published, clients, rejectsLeft, recoveriesLeft, driverReq,
          request, statusReq, downstream,
                   resultOk,
          healthReq, rosCall>>

(***************************************************************************)
(* Program constants and model bounds                                      *)
(***************************************************************************)
CIRCUIT_BREAKER_THRESHOLD == 3
CIRCUIT_BREAKER_TIMEOUT == 30000
MAX_RETRY_ATTEMPTS == 5
RETRY_DELAY_MS == 2000

\* the clock advances in steps of the base retry delay, of which every timer
\* and the cooldown are multiples, at most MaxTicks times
TickMs == RETRY_DELAY_MS
MaxTicks == 32
\* number of publishes the broker may reject in one behaviour
MaxBusFaults == 1
\* number of manual recoveries an operator triggers in one behaviour
MaxRecoveries == 1
\* number of saga executions the process may hold
NumSagas == 2
\* number of delivery-status updates a driver sends for one order
MaxDeliveryUpdates == 2
\* number of status requests a client sends in one behaviour
MaxQueries == 2
\* units of a SKU in stock at start-up, at most
MaxStock == 2
\* units of a SKU one package asks for, at most
MaxQuantity == 2
\* number of times a downstream operation is invoked for one order
MaxInvocations == 2
\* number of times the broker delivers an order's START event again
MaxRedeliveries == 1

Orders == {"o1", "o2"}
SagaIds == 1..NumSagas
Services == {"cms", "wms", "ros"}
Steps == 1..3

NULL == "NULL"

\* the order_status enum of the schema
order_status == {"SUBMITTED", "CMS_VERIFIED", "WMS_REGISTERED",
                 "ROS_OPTIMIZED", "READY_FOR_DELIVERY", "OUT_FOR_DELIVERY",
                 "DELIVERED", "FAILED", "CANCELLED"}

\* the fixed step sequence of processDistributedTransaction
StepName(k) == <<"CMS_VERIFICATION", "WMS_REGISTRATION", "ROS_OPTIMIZATION">>[k]
StepService(k) == <<"cms", "wms", "ros">>[k]
StepStartedEvent(k) ==
    <<"CMS_VERIFICATION_STARTED", "WMS_REGISTRATION_STARTED",
      "ROS_OPTIMIZATION_STARTED">>[k]
StepStatus(k) == <<"CMS_VERIFIED", "WMS_REGISTERED", "ROS_OPTIMIZED">>[k]
CompensationStatus(k) ==
    <<"CMS_COMPENSATION_EXECUTED", "WMS_COMPENSATION_EXECUTED",
      "ROS_COMPENSATION_EXECUTED">>[k]
RetryEvent(k) ==
    <<"CMS_RETRY_SCHEDULED", "WMS_RETRY_SCHEDULED", "ROS_RETRY_SCHEDULED">>[k]

(***************************************************************************)
(* Errors.  The CMS and WMS adapters throw errors that carry errorType and *)
(* suggestedAction; the ROS adapter rethrows a plain Error; the retry      *)
(* executor throws a plain Error when the circuit is open; a rejected      *)
(* publish throws the producer's error.                                    *)
(***************************************************************************)
NoError == [kind |-> "NONE", errorType |-> NULL, suggestedAction |-> NULL,
            serviceName |-> NULL, retryAttempts |-> 0]

AdapterError(errorType, action) ==
    [kind |-> "ADAPTER", errorType |-> errorType, suggestedAction |-> action,
     serviceName |-> NULL, retryAttempts |-> 0]

AdapterErrors(service) ==
    CASE service = "cms" ->
           {AdapterError("CREDIT_LIMIT_EXCEEDED", "Payment required")}
      [] service = "wms" ->
           {AdapterError("INVENTORY_SHORTAGE", "Wait for restock")}
      [] service = "ros" ->
           {AdapterError(NULL, NULL)}

CircuitOpenError ==
    [kind |-> "CIRCUIT_OPEN", errorType |-> NULL, suggestedAction |-> NULL,
     serviceName |-> NULL, retryAttempts |-> 0]

PublishError ==
    [kind |-> "PUBLISH", errorType |-> NULL, suggestedAction |-> NULL,
     serviceName |-> NULL, retryAttempts |-> 0]

\* finalError of callServiceWithRetry: the last error's details, the service
\* and the number of attempts
finalError(error, serviceName, retryCount) ==
    [kind |-> "TERMINAL", errorType |-> error.errorType,
     suggestedAction |-> error.suggestedAction,
     serviceName |-> serviceName, retryAttempts |-> retryCount + 1]

(***************************************************************************)
(* Circuit breaker registry                                                *)
(***************************************************************************)
HealthInit == [available |-> TRUE, lastFailure |-> <<>>,
               consecutiveFailures |-> 0]

\* Date.now() - health.lastFailure, where null converts to 0
SinceLastFailure(health, t) ==
    IF health.lastFailure = <<>> THEN t ELSE t - health.lastFailure[1]

\* a reset that sets the flag and keeps the count of failures
isServiceAvailableResetKeepingCount(health, t) ==
    IF ~health.available /\ SinceLastFailure(health, t) > CIRCUIT_BREAKER_TIMEOUT
    THEN [health EXCEPT !.available = TRUE]
    ELSE health

\* the breaker entry after isServiceAvailable ran at time t
isServiceAvailableReset(health, t) ==
    IF ~health.available /\ SinceLastFailure(health, t) > CIRCUIT_BREAKER_TIMEOUT
    THEN [health EXCEPT !.available = TRUE, !.consecutiveFailures = 0]
    ELSE health

\* a breaker that never rejects an attempt
isServiceAvailableAlways(health, t) == TRUE

\* the value isServiceAvailable returns at time t
isServiceAvailable(health, t) == isServiceAvailableReset(health, t).available

\* a breaker that opens one failure late
recordServiceFailureLate(health, t) ==
    LET n == health.consecutiveFailures + 1
    IN [available |-> IF n > CIRCUIT_BREAKER_THRESHOLD THEN FALSE
                      ELSE health.available,
        lastFailure |-> <<t>>,
        consecutiveFailures |-> n]

\* a failure written from a count read before another saga's increment
recordServiceFailureLosingUpdate(health, t) ==
    [available |-> health.available, lastFailure |-> <<t>>,
     consecutiveFailures |-> IF health.consecutiveFailures = 0 THEN 1
                             ELSE health.consecutiveFailures]

recordServiceFailure(health, t) ==
    LET n == health.consecutiveFailures + 1
    IN [available |-> IF n >= CIRCUIT_BREAKER_THRESHOLD THEN FALSE
                      ELSE health.available,
        lastFailure |-> <<t>>,
        consecutiveFailures |-> n]

\* a success that clears the failures and leaves the flag as it was
recordServiceSuccessKeepingFlag(health) ==
    [health EXCEPT !.lastFailure = <<>>, !.consecutiveFailures = 0]

\* a success that keeps the time of the last failure
recordServiceSuccessKeepingLastFailure(health) ==
    [available |-> TRUE, lastFailure |-> health.lastFailure,
     consecutiveFailures |-> 0]

recordServiceSuccess(health) ==
    [available |-> TRUE, lastFailure |-> <<>>, consecutiveFailures |-> 0]

(***************************************************************************)
(* Retry executor: the decisions of callServiceWithRetry                   *)
(***************************************************************************)
Pow2(n) == 2 ^ n

\* a retry loop that counts the first attempt among MAX_RETRY_ATTEMPTS
ShouldRetryCountingFirst(retryCount) == retryCount < MAX_RETRY_ATTEMPTS - 1

\* a retry loop that schedules a retry after the last attempt as well
ShouldRetryAfterLast(retryCount) == retryCount <= MAX_RETRY_ATTEMPTS

\* the branch "retryCount < MAX_RETRY_ATTEMPTS" of the catch block
ShouldRetry(retryCount) == retryCount < MAX_RETRY_ATTEMPTS

\* a backoff that grows linearly
BackoffDelayLinear(retryCount) == RETRY_DELAY_MS * (retryCount + 1)

\* the setTimeout argument
BackoffDelay(retryCount) == RETRY_DELAY_MS * Pow2(retryCount)

(***************************************************************************)
(* Orders table                                                            *)
(***************************************************************************)
NoRow == [status |-> NULL]

\* the updateData of an updateOrderStatus call: a step's result, or the
\* error details of a failure
NoData == [result |-> NULL, errorType |-> NULL, suggestedAction |-> NULL,
           retryAttempts |-> 0]

\* a row of order_events
OrderEvent(event_type, data) == [event_type |-> event_type, data |-> data]

\* OrderRepository.createOrder: the inserted row
createOrder(t) ==
    [status |-> "SUBMITTED", submitted_at |-> <<t>>,
     contract_id |-> NULL, warehouse_package_id |-> NULL, route_id |-> NULL,
     assigned_driver_id |-> NULL,
     cms_verified_at |-> <<>>, wms_registered_at |-> <<>>,
     ros_optimized_at |-> <<>>, ready_for_delivery_at |-> <<>>,
     events |-> <<OrderEvent("SUBMITTED", NoData)>>]

\* a status column that accepts any text
StatusAcceptedAnyText(status) == TRUE

\* a status value the column type accepts
StatusAccepted(status) == status \in order_status

\* OrderRepository.updateOrderStatus: the row after the UPDATE and the
\* INSERT into order_events; data is the updateData of the call
updateOrderStatus(row, status, data, t) ==
    LET r0 == [row EXCEPT !.status = status]
        r1 == IF status = "CMS_VERIFIED" /\ data.result # NULL
              THEN [r0 EXCEPT !.contract_id = data.result,
                              !.cms_verified_at = <<t>>]
              ELSE r0
        r2 == IF status = "WMS_REGISTERED" /\ data.result # NULL
              THEN [r1 EXCEPT !.warehouse_package_id = data.result,
                              !.wms_registered_at = <<t>>]
              ELSE r1
        r3 == IF status = "ROS_OPTIMIZED" /\ data.result # NULL
              THEN [r2 EXCEPT !.route_id = data.result,
                              !.assigned_driver_id = "DRV",
                              !.ros_optimized_at = <<t>>]
              ELSE r2
        r4 == IF status = "READY_FOR_DELIVERY"
              THEN [r3 EXCEPT !.ready_for_delivery_at = <<t>>]
              ELSE r3
    IN [r4 EXCEPT !.events = Append(@, OrderEvent(status, data))]

\* the table after a write: a status outside the enum makes the UPDATE fail
StoreWrite(row, status, data, t) ==
    IF StatusAccepted(status) THEN updateOrderStatus(row, status, data, t)
    ELSE row

\* the result blob an adapter returns for a step
AdapterResult(k) == <<"SWFT-CTR", "SWFT-PKG", "ROUTE">>[k]

\* a step's update that passes no result
StepDataMissing(result) == NoData

\* the updateData of a step's update
StepData(result) == [NoData EXCEPT !.result = result]

\* the updateData of the catch block's update: the error's details
FailureData(err) ==
    [NoData EXCEPT !.errorType = err.errorType,
                   !.suggestedAction = err.suggestedAction,
                   !.retryAttempts = err.retryAttempts]

(***************************************************************************)
(* Saga execution: the state of one run of processDistributedTransaction   *)
(***************************************************************************)
SagaFree == [order |-> NULL, pc |-> "free", step |-> 0, retryCount |-> 0,
             completedSteps |-> <<>>, compensationActions |-> <<>>,
             compIdx |-> 0, lastError |-> NoError, err |-> NoError,
             wakeAt |-> 0, result |-> NULL]

\* what a run has done so far: attempts and downstream calls per step, the
\* backoff delays of the current step, the compensations invoked, the step
\* whose retries were exhausted, the attempts rejected by an open circuit
HistInit == [attempts |-> [k \in Steps |-> 0], calls |-> [k \in Steps |-> 0],
             delays |-> <<>>, compLog |-> <<>>, exhausted |-> 0,
             fastFails |-> 0]

\* OrderProcessingSaga.compensate up to its first await: the loop index it
\* starts from, last recorded action first
CompensationStart(compensationActions) == Len(compensationActions)

\* a compensation loop that steps over every other recorded action
CompensationNextSkipping(idx) == idx - 2

\* the loop index after the one just run (0: loop finished)
CompensationNext(idx) == idx - 1

\* the catch of executeStep: compensate() begins with error e pending
compensate(s, g, e) ==
    LET idx == CompensationStart(s.compensationActions)
    IN IF idx >= 1
       THEN [saga |-> [s EXCEPT !.pc = "compensating", !.compIdx = idx,
                                !.err = e],
             hist |-> [g EXCEPT !.compLog =
                          Append(@, s.compensationActions[idx])]]
       ELSE [saga |-> [s EXCEPT !.pc = "emitCompensated", !.compIdx = 0,
                                !.err = e],
             hist |-> g]

\* a catch block that gives the step up as soon as an attempt is rejected by
\* the open circuit
FailAttemptAbortingOnOpen(s, g, health, error, t) ==
    LET h2 == recordServiceFailure(health, t)
    IN IF ShouldRetry(s.retryCount) /\ error.kind # "CIRCUIT_OPEN"
       THEN [saga |-> [s EXCEPT !.pc = "emitRetry", !.lastError = error],
             hist |-> g, health |-> h2]
       ELSE LET c == compensate([s EXCEPT !.lastError = error],
                                [g EXCEPT !.exhausted = s.step],
                                finalError(error, StepService(s.step),
                                           s.retryCount))
            IN [saga |-> c.saga, hist |-> c.hist, health |-> h2]

\* the catch block of callServiceWithRetry for an attempt that failed with
\* error at time t
FailAttempt(s, g, health, error, t) ==
    LET h2 == recordServiceFailure(health, t)
    IN IF ShouldRetry(s.retryCount)
       THEN [saga |-> [s EXCEPT !.pc = "emitRetry", !.lastError = error],
             hist |-> g, health |-> h2]
       ELSE LET c == compensate([s EXCEPT !.lastError = error],
                                [g EXCEPT !.exhausted = s.step],
                                finalError(error, StepService(s.step),
                                           s.retryCount))
            IN [saga |-> c.saga, hist |-> c.hist, health |-> h2]

\* callServiceWithRetry from its entry to its first await
callServiceWithRetry(s, g, health, t) ==
    LET h1 == isServiceAvailableReset(health, t)
        g1 == [g EXCEPT !.attempts[s.step] = @ + 1]
    IN IF isServiceAvailable(health, t)
       THEN [saga |-> [s EXCEPT !.pc = "inCall"],
             hist |-> [g1 EXCEPT !.calls[s.step] = @ + 1],
             health |-> h1]
       ELSE FailAttempt(s, [g1 EXCEPT !.fastFails = @ + 1], h1,
                        CircuitOpenError, t)

(***************************************************************************)
(* Downstream systems: the WMS mock (POST /register) and the ROS mock      *)
(* (POST /optimize-route), each with the state it keeps in memory          *)
(***************************************************************************)
Skus == {"BOOK-001", "BOOK-002"}

\* the package lists of an order: one or two packages of different SKUs
PackageLists ==
    {<<[sku |-> a, quantity |-> q]>> : a \in Skus, q \in 1..MaxQuantity}
    \cup {<<[sku |-> p[1], quantity |-> q], [sku |-> p[2], quantity |-> r]>> :
            p \in {x \in Skus \X Skus : x[1] # x[2]},
            q \in 1..MaxQuantity, r \in 1..MaxQuantity}

\* the inventory of the WMS mock: units available and reserved per SKU
Inventories ==
    [Skus -> [available : 0..MaxStock, reserved : {0}]]

\* the loop over the packages from index n on: a package in stock is
\* reserved at once, one out of stock clears allPackagesAvailable
RECURSIVE reservePackages(_, _, _, _)
reservePackages(inventory, packages, n, allPackagesAvailable) ==
    IF n > Len(packages)
    THEN [inventory |-> inventory,
          allPackagesAvailable |-> allPackagesAvailable]
    ELSE LET pkg == packages[n]
             stock == inventory[pkg.sku]
             isAvailable == stock.available >= pkg.quantity
             next == IF isAvailable
                     THEN [inventory EXCEPT
                             ![pkg.sku] =
                                 [available |-> stock.available - pkg.quantity,
                                  reserved |-> stock.reserved + pkg.quantity]]
                     ELSE inventory
         IN reservePackages(next, packages, n + 1,
                            allPackagesAvailable /\ isAvailable)

\* POST /register: the inventory it leaves and the status it answers
registerPackages(inventory, packages) ==
    IF Len(packages) = 0 THEN [inventory |-> inventory, code |-> 400]
    ELSE LET r == reservePackages(inventory, packages, 1, TRUE)
         IN [inventory |-> r.inventory,
             code |-> IF r.allPackagesAvailable THEN 200 ELSE 409]

\* the fleet of the ROS mock, in the order of the object's keys
VehicleIds == <<"VAN-001", "VAN-002", "BIKE-001", "BIKE-002", "TRUCK-001">>

vehicleFleet ==
    [v \in {VehicleIds[n] : n \in 1..Len(VehicleIds)} |->
        CASE v = "VAN-001" ->
               [type |-> "VAN", capacity |-> 50, currentLoad |-> 25,
                status |-> "AVAILABLE"]
          [] v = "VAN-002" ->
               [type |-> "VAN", capacity |-> 50, currentLoad |-> 30,
                status |-> "ON_ROUTE"]
          [] v = "BIKE-001" ->
               [type |-> "MOTORCYCLE", capacity |-> 10, currentLoad |-> 5,
                status |-> "AVAILABLE"]
          [] v = "BIKE-002" ->
               [type |-> "MOTORCYCLE", capacity |-> 10, currentLoad |-> 8,
                status |-> "AVAILABLE"]
          [] v = "TRUCK-001" ->
               [type |-> "TRUCK", capacity |-> 100, currentLoad |-> 60,
                status |-> "AVAILABLE"]]

\* analyzeDeliveryRoute: the route type of the addresses' zones, UNKNOWN when
\* no address lies in a known zone
RouteTypes == {"METRO", "SUBURBAN", "OUTSTATION", "UNKNOWN"}

\* the first vehicle of a non-empty list with the lowest load (the sort is
\* stable)
LowestLoad(fleet, ids) ==
    ids[CHOOSE n \in 1..Len(ids) :
          /\ \A m \in 1..Len(ids) :
                fleet[ids[n]].currentLoad <= fleet[ids[m]].currentLoad
          /\ \A m \in 1..(n - 1) :
                fleet[ids[m]].currentLoad > fleet[ids[n]].currentLoad]

\* findOptimalVehicle: NULL when no vehicle is available
findOptimalVehicle(fleet, routeType, priority, totalPackages) ==
    LET IsAvailable(v) == fleet[v].status = "AVAILABLE"
        availableVehicles == SelectSeq(VehicleIds, IsAvailable)
        SuitsRoute(v) ==
            IF routeType = "OUTSTATION" THEN fleet[v].type \in {"TRUCK", "VAN"}
            ELSE IF routeType = "METRO" /\ priority = "URGENT"
                 THEN fleet[v].type = "MOTORCYCLE"
            ELSE TRUE
        HasCapacity(v) ==
            fleet[v].capacity - fleet[v].currentLoad >= totalPackages
        suitableVehicles ==
            SelectSeq(SelectSeq(availableVehicles, SuitsRoute), HasCapacity)
    IN IF availableVehicles = <<>> THEN NULL
       ELSE IF suitableVehicles = <<>> THEN availableVehicles[1]
       ELSE LowestLoad(fleet, suitableVehicles)

\* POST /optimize-route: the fleet it leaves, the status it answers and the
\* vehicle it assigned
optimizeRoute(fleet, order) ==
    LET totalPackages == IF Len(order.packages) = 0 THEN 1
                         ELSE Len(order.packages)
        v == findOptimalVehicle(fleet, order.routeType, order.priority,
                                totalPackages)
    IN IF order.routeType = "UNKNOWN"
       THEN [fleet |-> fleet, code |-> 400, assignedVehicle |-> NULL]
       ELSE IF v = NULL
       THEN [fleet |-> fleet, code |-> 503, assignedVehicle |-> NULL]
       ELSE [fleet |-> [fleet EXCEPT
                          ![v] = [@ EXCEPT
                                    !.status = "ASSIGNED",
                                    !.currentLoad = @ + totalPackages]],
             code |-> 200, assignedVehicle |-> v]

\* the orders sent downstream
DownstreamOrders ==
    [packages : PackageLists, routeType : RouteTypes,
     priority : {"STANDARD", "URGENT"}]

\* the mocks at start-up, with the order they will be called for and the
\* answers they gave so far
DownstreamStarts ==
    {[order |-> o, inventory0 |-> inv, inventory |-> inv,
      fleet |-> vehicleFleet, registered |-> <<>>, optimized |-> <<>>] :
        o \in DownstreamOrders, inv \in Inventories}

DownstreamStart ==
    CHOOSE d \in DownstreamStarts :
        /\ d.order = [packages |-> <<[sku |-> "BOOK-001", quantity |-> 1]>>,
                      routeType |-> "METRO", priority |-> "STANDARD"]
        /\ \A a \in Skus : d.inventory[a].available = MaxStock

(***************************************************************************)
(* Initial state                                                           *)
(***************************************************************************)
\* the clients that submit an order, the publishes the broker may still
\* reject and the manual recoveries still to come
Scenarios ==
    {[clients |-> Orders, rejectsLeft |-> 0, recoveriesLeft |-> 0],
     [clients |-> {"o1"}, rejectsLeft |-> MaxBusFaults,
      recoveriesLeft |-> MaxRecoveries]}

\* no status request is being served and none was answered
StatusIdle == [pc |-> "idle", orderId |-> NULL, order |-> NoRow, served |-> <<>>]

\* no health report requested yet
HealthReqIdle == [calls |-> 0, report |-> <<>>]

\* ROSAdapter before any invocation of makeRequestWithRetry
RosCallIdle == [pc |-> "idle", attempt |-> 0, requests |-> 0, delays |-> <<>>,
                errors |-> <<>>, invocations |-> 0]

\* the order service at start-up in scenario sc
InitScenario(sc) ==
    /\ now = 0
    /\ serviceHealth = [s \in Services |-> HealthInit]
    /\ reqPc = [o \in Orders |-> "idle"]
    /\ response = [o \in Orders |-> [code |-> 0, error |-> NULL]]
    /\ db = [o \in Orders |-> NoRow]
    /\ pending = {}
    /\ saga = [i \in SagaIds |-> SagaFree]
    /\ hist = [i \in SagaIds |-> HistInit]
    /\ published = [o \in Orders |-> <<>>]
    /\ driverReq = [o \in Orders |-> NULL]
    /\ request = [o \in Orders |-> <<>>]
    /\ statusReq = StatusIdle
    /\ resultOk = [i \in SagaIds |-> TRUE]
    /\ healthReq = HealthReqIdle
    /\ rosCall = RosCallIdle
    /\ clients = sc.clients
    /\ rejectsLeft = sc.rejectsLeft
    /\ recoveriesLeft = sc.recoveriesLeft

InitOrderService == \E sc \in Scenarios : InitScenario(sc)

\* the order service at start-up, the mocks not called
Init == InitOrderService /\ downstream = DownstreamStart

\* emitEvent: the broker stores the event, or rejects the send
CanReject == rejectsLeft > 0

\* a broker that puts an accepted event in front of the order's earlier ones
PublishAtFront(o, eventType, ok) ==
    /\ ok \/ CanReject
    /\ published' = IF ok THEN [published EXCEPT ![o] = <<eventType>> \o @]
                    ELSE published
    /\ rejectsLeft' = IF ok THEN rejectsLeft ELSE rejectsLeft - 1

Publish(o, eventType, ok) ==
    /\ ok \/ CanReject
    /\ published' = IF ok THEN [published EXCEPT ![o] = Append(@, eventType)]
                    ELSE published
    /\ rejectsLeft' = IF ok THEN rejectsLeft ELSE rejectsLeft - 1

(***************************************************************************)
(* POST /api/orders                                                        *)
(***************************************************************************)
Payloads == [id : BOOLEAN, clientId : BOOLEAN, packages : 0..1,
             deliveryAddresses : 0..1]

\* a validation chain without the check of the package list
ValidationErrorSkippingPackages(p) ==
    IF ~p.id THEN "order.id is required"
    ELSE IF ~p.clientId
         THEN "clientId is required for Swift Logistics processing"
    ELSE IF p.deliveryAddresses = 0
         THEN "At least one delivery address is required"
    ELSE NULL

\* the validation chain: the error of the first failing check, or NULL
ValidationError(p) ==
    IF ~p.id THEN "order.id is required"
    ELSE IF ~p.clientId
         THEN "clientId is required for Swift Logistics processing"
    ELSE IF p.packages = 0 THEN "At least one package is required"
    ELSE IF p.deliveryAddresses = 0
         THEN "At least one delivery address is required"
    ELSE NULL

SubmitOrder(o, p) ==
    /\ o \in clients
    /\ reqPc[o] = "idle"
    /\ request' = [request EXCEPT ![o] = <<p>>]
    /\ IF ValidationError(p) # NULL
       THEN /\ reqPc' = [reqPc EXCEPT ![o] = "done"]
            /\ response' = [response EXCEPT
                              ![o] = [code |-> 400, error |-> ValidationError(p)]]
       ELSE /\ reqPc' = [reqPc EXCEPT ![o] = "createOrder"]
            /\ UNCHANGED response
    /\ UNCHANGED <<now, serviceHealth, db, pending, saga, hist, published,
                   rejectsLeft, recoveriesLeft, clients, driverReq,
                   statusReq, downstream,
                   resultOk,
                   healthReq, rosCall>>

CreateOrderDone(o) ==
    /\ reqPc[o] = "createOrder"
    /\ db' = [db EXCEPT ![o] = createOrder(now)]
    /\ reqPc' = [reqPc EXCEPT ![o] = "emitAccepted"]
    /\ UNCHANGED <<now, serviceHealth, response, pending, saga, hist,
                   published, rejectsLeft, recoveriesLeft, clients, driverReq,
                   request, statusReq, downstream,
                   resultOk,
                   healthReq, rosCall>>

AcceptFailed == [code |-> 500, error |-> "Order acceptance failed"]
Accepted == [code |-> 202, error |-> NULL]

EmitAccepted(o, ok) ==
    /\ reqPc[o] = "emitAccepted"
    /\ Publish(o, "ORDER_ACCEPTED", ok)
    /\ IF ok
       THEN /\ reqPc' = [reqPc EXCEPT ![o] = "emitStart"]
            /\ UNCHANGED response
       ELSE /\ reqPc' = [reqPc EXCEPT ![o] = "done"]
            /\ response' = [response EXCEPT ![o] = AcceptFailed]
    /\ UNCHANGED <<now, serviceHealth, db, pending, saga, hist,
                   recoveriesLeft, clients, driverReq,
                   request, statusReq, downstream,
                   resultOk,
                   healthReq, rosCall>>

\* producer.send of DISTRIBUTED_TRANSACTION_START: the broker appends the
\* event, where the consumer can fetch it, before the producer's
\* acknowledgement resumes the handler
EmitStart(o, ok) ==
    /\ reqPc[o] = "emitStart"
    /\ Publish(o, "DISTRIBUTED_TRANSACTION_START", ok)
    /\ IF ok
       THEN /\ reqPc' = [reqPc EXCEPT ![o] = "startAcked"]
            /\ pending' = pending \cup {o}
            /\ UNCHANGED response
       ELSE /\ reqPc' = [reqPc EXCEPT ![o] = "done"]
            /\ response' = [response EXCEPT ![o] = AcceptFailed]
            /\ UNCHANGED pending
    /\ UNCHANGED <<now, serviceHealth, db, saga, hist, recoveriesLeft,
                   clients, driverReq,
                   request, statusReq, downstream,
                   resultOk,
                   healthReq, rosCall>>

\* the handler resumes after the send and answers 202
RespondAccepted(o) ==
    /\ reqPc[o] = "startAcked"
    /\ reqPc' = [reqPc EXCEPT ![o] = "done"]
    /\ response' = [response EXCEPT ![o] = Accepted]
    /\ UNCHANGED <<now, serviceHealth, db, pending, saga, hist, published,
                   rejectsLeft, recoveriesLeft, clients, driverReq,
                   request, statusReq, downstream,
                   resultOk,
                   healthReq, rosCall>>

(***************************************************************************)
(* Consumer of the topic and the background saga                           *)
(***************************************************************************)
\* a consumer whose handler awaits processDistributedTransaction: the next
\* message is handled when no run is under way
FreeSlotsAwaitingRun ==
    IF \A i \in SagaIds : saga[i].pc \in {"free", "done"}
    THEN {i \in SagaIds : saga[i].pc = "free"}
    ELSE {}

\* the runs of processDistributedTransaction not yet used
FreeSlots == {i \in SagaIds : saga[i].pc = "free"}

\* the consumer's handler for DISTRIBUTED_TRANSACTION_START: setImmediate
\* queues processDistributedTransaction(event.data.order)
ConsumeStart(o) ==
    /\ o \in pending
    /\ FreeSlots # {}
    /\ LET i == CHOOSE j \in FreeSlots : \A k \in FreeSlots : j <= k
       IN saga' = [saga EXCEPT ![i] = [SagaFree EXCEPT !.order = o,
                                                       !.pc = "scheduled"]]
    /\ pending' = pending \ {o}
    /\ UNCHANGED <<now, serviceHealth, reqPc, response, db, hist, published,
                   rejectsLeft, recoveriesLeft, clients, driverReq,
                   request, statusReq, downstream,
                   resultOk,
                   healthReq, rosCall>>

\* the setImmediate callback: processDistributedTransaction creates the saga
\* and sends CMS_VERIFICATION_STARTED
SagaBegin(i) ==
    /\ saga[i].pc = "scheduled"
    /\ saga' = [saga EXCEPT ![i] = [@ EXCEPT !.pc = "emitStarted", !.step = 1]]
    /\ UNCHANGED <<now, serviceHealth, reqPc, response, db, pending, hist,
                   published, rejectsLeft, recoveriesLeft, clients, driverReq,
                   request, statusReq, downstream,
                   resultOk,
                   healthReq, rosCall>>

\* a catch that logs the error and returns
CatchFailedSwallowing(s, e) == [s EXCEPT !.pc = "done", !.err = e]

\* the catch of processDistributedTransaction: persist FAILED next
CatchFailed(s, e) == [s EXCEPT !.pc = "persistFailed", !.err = e]

\* <STEP>_STARTED was sent: executeStep calls callServiceWithRetry
EmitStarted(i, ok) ==
    LET s == saga[i]
        svc == StepService(s.step)
        r == callServiceWithRetry(s, hist[i], serviceHealth[svc], now)
    IN /\ s.pc = "emitStarted"
       /\ Publish(s.order, StepStartedEvent(s.step), ok)
       /\ IF ok
          THEN /\ saga' = [saga EXCEPT ![i] = r.saga]
               /\ hist' = [hist EXCEPT ![i] = r.hist]
               /\ serviceHealth' = [serviceHealth EXCEPT ![svc] = r.health]
          ELSE /\ saga' = [saga EXCEPT ![i] = CatchFailed(s, PublishError)]
               /\ UNCHANGED <<hist, serviceHealth>>
       /\ UNCHANGED <<now, reqPc, response, db, pending, recoveriesLeft,
                      clients, driverReq,
                      request, statusReq, downstream,
                   resultOk,
                   healthReq, rosCall>>

\* the adapter call resolves: recordServiceSuccess, executeStep records the
\* step and its compensation, updateOrderStatus is issued
CallReturns(i) ==
    LET s == saga[i]
        svc == StepService(s.step)
    IN /\ s.pc = "inCall"
       /\ serviceHealth' = [serviceHealth EXCEPT
                              ![svc] = recordServiceSuccess(@)]
       /\ saga' = [saga EXCEPT ![i] =
                     [s EXCEPT !.pc = "persistStep",
                               !.result = AdapterResult(s.step),
                               !.completedSteps = Append(@, s.step),
                               !.compensationActions = Append(@, s.step)]]
       /\ resultOk' = [resultOk EXCEPT ![i] = TRUE]
       /\ UNCHANGED <<now, reqPc, response, db, pending, hist, published,
                      rejectsLeft, recoveriesLeft, clients, driverReq,
                      request, statusReq, downstream,
                   healthReq, rosCall>>

\* the adapter call rejects with error e
CallThrows(i, e) ==
    LET s == saga[i]
        svc == StepService(s.step)
        r == FailAttempt(s, hist[i], serviceHealth[svc], e, now)
    IN /\ s.pc = "inCall"
       /\ e \in AdapterErrors(svc)
       /\ saga' = [saga EXCEPT ![i] = r.saga]
       /\ hist' = [hist EXCEPT ![i] = r.hist]
       /\ serviceHealth' = [serviceHealth EXCEPT ![svc] = r.health]
       /\ UNCHANGED <<now, reqPc, response, db, pending, published,
                      rejectsLeft, recoveriesLeft, clients, driverReq,
                      request, statusReq, downstream,
                   resultOk,
                   healthReq, rosCall>>

\* <SERVICE>_RETRY_SCHEDULED was sent: the backoff timer is set; a rejected
\* send leaves the catch block of callServiceWithRetry as an exception
EmitRetry(i, ok) ==
    LET s == saga[i]
        delay == BackoffDelay(s.retryCount)
        c == compensate(s, hist[i], PublishError)
    IN /\ s.pc = "emitRetry"
       /\ Publish(s.order, RetryEvent(s.step), ok)
       /\ IF ok
          THEN /\ saga' = [saga EXCEPT ![i] =
                             [s EXCEPT !.pc = "sleeping",
                                       !.wakeAt = now + delay]]
               /\ hist' = [hist EXCEPT ![i] =
                             [@ EXCEPT !.delays = Append(@, delay)]]
          ELSE /\ saga' = [saga EXCEPT ![i] = c.saga]
               /\ hist' = [hist EXCEPT ![i] = c.hist]
       /\ UNCHANGED <<now, serviceHealth, reqPc, response, db, pending,
                      recoveriesLeft, clients, driverReq,
                      request, statusReq, downstream,
                   resultOk,
                   healthReq, rosCall>>

\* the backoff timer fires: callServiceWithRetry(..., retryCount + 1)
WakeUp(i) ==
    LET s == saga[i]
        svc == StepService(s.step)
        r == callServiceWithRetry([s EXCEPT !.retryCount = @ + 1], hist[i],
                                  serviceHealth[svc], now)
    IN /\ s.pc = "sleeping"
       /\ now >= s.wakeAt
       /\ saga' = [saga EXCEPT ![i] = r.saga]
       /\ hist' = [hist EXCEPT ![i] = r.hist]
       /\ serviceHealth' = [serviceHealth EXCEPT ![svc] = r.health]
       /\ UNCHANGED <<now, reqPc, response, db, pending, published,
                      rejectsLeft, recoveriesLeft, clients, driverReq,
                      request, statusReq, downstream,
                   resultOk,
                   healthReq, rosCall>>

\* a compensation action settles: its updateOrderStatus(<X>_COMPENSATION_
\* EXECUTED) ran against the table, a failure is logged, the loop goes on
CompensationDone(i) ==
    LET s == saga[i]
        step == s.compensationActions[s.compIdx]
        next == CompensationNext(s.compIdx)
    IN /\ s.pc = "compensating"
       /\ db' = [db EXCEPT ![s.order] =
                   StoreWrite(@, CompensationStatus(step), NoData, now)]
       /\ IF next >= 1
          THEN /\ saga' = [saga EXCEPT ![i] = [s EXCEPT !.compIdx = next]]
               /\ hist' = [hist EXCEPT ![i] =
                             [@ EXCEPT !.compLog =
                                Append(@, s.compensationActions[next])]]
          ELSE /\ saga' = [saga EXCEPT ![i] =
                             [s EXCEPT !.pc = "emitCompensated",
                                       !.compIdx = 0]]
               /\ UNCHANGED hist
       /\ UNCHANGED <<now, serviceHealth, reqPc, response, pending, published,
                      rejectsLeft, recoveriesLeft, clients, driverReq,
                      request, statusReq, downstream,
                   resultOk,
                   healthReq, rosCall>>

\* ORDER_SAGA_COMPENSATED was sent: executeStep rethrows the step's error
EmitCompensated(i, ok) ==
    LET s == saga[i]
    IN /\ s.pc = "emitCompensated"
       /\ Publish(s.order, "ORDER_SAGA_COMPENSATED", ok)
       /\ saga' = [saga EXCEPT ![i] =
                     CatchFailed(s, IF ok THEN s.err ELSE PublishError)]
       /\ UNCHANGED <<now, serviceHealth, reqPc, response, db, pending, hist,
                      recoveriesLeft, clients, driverReq,
                      request, statusReq, downstream,
                   resultOk,
                   healthReq, rosCall>>

\* updateOrderStatus(<STEP status>, result) settled
PersistStep(i) ==
    LET s == saga[i]
    IN /\ s.pc = "persistStep"
       /\ db' = [db EXCEPT ![s.order] =
                   StoreWrite(@, StepStatus(s.step), StepData(s.result), now)]
       /\ saga' = [saga EXCEPT ![i] = [s EXCEPT !.pc = "emitStepDone"]]
       /\ UNCHANGED <<now, serviceHealth, reqPc, response, pending, hist,
                      published, rejectsLeft, recoveriesLeft, clients, driverReq,
                      request, statusReq, downstream,
                   resultOk,
                   healthReq, rosCall>>

\* a try block that goes on to the step after the next
NextStepSkipping(k) == k + 2

\* the step after step k in the try block (4: finalize)
NextStep(k) == k + 1

\* the step's completed event was sent: the next step starts, or the final
\* update is issued
EmitStepDone(i, ok) ==
    LET s == saga[i]
    IN /\ s.pc = "emitStepDone"
       /\ Publish(s.order, StepStatus(s.step), ok)
       /\ IF ~ok
          THEN /\ saga' = [saga EXCEPT ![i] = CatchFailed(s, PublishError)]
               /\ UNCHANGED hist
          ELSE IF NextStep(s.step) \in Steps
          THEN /\ saga' = [saga EXCEPT ![i] =
                             [s EXCEPT !.pc = "emitStarted",
                                       !.step = NextStep(s.step),
                                       !.retryCount = 0, !.result = NULL,
                                       !.lastError = NoError]]
               /\ hist' = [hist EXCEPT ![i] = [@ EXCEPT !.delays = <<>>]]
          ELSE /\ saga' = [saga EXCEPT ![i] = [s EXCEPT !.pc = "persistReady"]]
               /\ UNCHANGED hist
       /\ UNCHANGED <<now, serviceHealth, reqPc, response, db, pending,
                      recoveriesLeft, clients, driverReq,
                      request, statusReq, downstream,
                   resultOk,
                   healthReq, rosCall>>

\* updateOrderStatus(READY_FOR_DELIVERY) settled
\* a finalize that goes on to the event without the update
PersistReadySkippingWrite(i) ==
    /\ saga[i].pc = "persistReady"
    /\ saga' = [saga EXCEPT ![i] = [@ EXCEPT !.pc = "emitReady"]]
    /\ UNCHANGED <<now, serviceHealth, reqPc, response, db, pending, hist,
                   published, rejectsLeft, recoveriesLeft, clients, driverReq,
                   request, statusReq, downstream, resultOk,
                   healthReq, rosCall>>

PersistReady(i) ==
    LET s == saga[i]
    IN /\ s.pc = "persistReady"
       /\ db' = [db EXCEPT ![s.order] =
                   StoreWrite(@, "READY_FOR_DELIVERY", NoData, now)]
       /\ saga' = [saga EXCEPT ![i] = [s EXCEPT !.pc = "emitReady"]]
       /\ UNCHANGED <<now, serviceHealth, reqPc, response, pending, hist,
                      published, rejectsLeft, recoveriesLeft, clients, driverReq,
                      request, statusReq, downstream,
                   resultOk,
                   healthReq, rosCall>>

\* ORDER_READY_FOR_DELIVERY was sent; a rejected send lands in the catch
EmitReady(i, ok) ==
    LET s == saga[i]
    IN /\ s.pc = "emitReady"
       /\ Publish(s.order, "ORDER_READY_FOR_DELIVERY", ok)
       /\ saga' = [saga EXCEPT ![i] =
                     IF ok THEN [s EXCEPT !.pc = "done"]
                     ELSE CatchFailed(s, PublishError)]
       /\ UNCHANGED <<now, serviceHealth, reqPc, response, db, pending, hist,
                      recoveriesLeft, clients, driverReq,
                      request, statusReq, downstream,
                   resultOk,
                   healthReq, rosCall>>

\* the catch block: updateOrderStatus(FAILED, error details) settled
PersistFailed(i) ==
    LET s == saga[i]
    IN /\ s.pc = "persistFailed"
       /\ db' = [db EXCEPT ![s.order] =
                   StoreWrite(@, "FAILED", FailureData(s.err), now)]
       /\ saga' = [saga EXCEPT ![i] = [s EXCEPT !.pc = "emitFailed"]]
       /\ UNCHANGED <<now, serviceHealth, reqPc, response, pending, hist,
                      published, rejectsLeft, recoveriesLeft, clients, driverReq,
                      request, statusReq, downstream,
                   resultOk,
                   healthReq, rosCall>>

\* ORDER_FAILED was sent, or its rejection was logged by the setImmediate
\* callback
EmitFailed(i, ok) ==
    LET s == saga[i]
    IN /\ s.pc = "emitFailed"
       /\ Publish(s.order, "ORDER_FAILED", ok)
       /\ saga' = [saga EXCEPT ![i] = [s EXCEPT !.pc = "done"]]
       /\ UNCHANGED <<now, serviceHealth, reqPc, response, db, pending, hist,
                      recoveriesLeft, clients, driverReq,
                      request, statusReq, downstream,
                   resultOk,
                   healthReq, rosCall>>

(***************************************************************************)
(* Operations and time                                                     *)
(***************************************************************************)
\* POST /api/services/:service/recover
RecoverService(svc) ==
    /\ recoveriesLeft > 0
    /\ serviceHealth[svc] # HealthInit
    /\ recoveriesLeft' = recoveriesLeft - 1
    /\ serviceHealth' = [serviceHealth EXCEPT ![svc] = recordServiceSuccess(@)]
    /\ UNCHANGED <<now, reqPc, response, db, pending, saga, hist, published,
                   rejectsLeft, clients, driverReq,
                   request, statusReq, downstream,
                   resultOk,
                   healthReq, rosCall>>

\* The clock is read only by a pending timer and by the cooldown of an open
\* circuit, so it advances only while one of them is waiting for it.  A
\* publish, a table write, the delivery of an event and a callback take far
\* less than TickMs: the clock stands still while one of them is under way,
\* and a timer that is due fires before the clock moves on.  A downstream
\* call settles within the tick in which it started.
\* the timeout option of the adapter's axios.post: ROS passes 30000, CMS and
\* WMS pass none, and axios then sets no timer
AdapterTimeout(svc) == IF svc = "ros" THEN <<30000>> ELSE <<>>

\* saga i has a timer running: a backoff sleep, or the request timeout of a
\* call the service does not answer
Timed(i) ==
    \/ saga[i].pc = "sleeping"
    \/ /\ saga[i].pc = "hung"
       /\ AdapterTimeout(StepService(saga[i].step)) # <<>>

TimerPending == \E i \in SagaIds : Timed(i)
TimerDue == \E i \in SagaIds : Timed(i) /\ now >= saga[i].wakeAt
CooldownPending ==
    \E svc \in Services :
        /\ ~serviceHealth[svc].available
        /\ ~isServiceAvailable(serviceHealth[svc], now)
Quiescent ==
    /\ \A i \in SagaIds : saga[i].pc \in {"free", "sleeping", "hung", "done"}
    /\ \A o \in Orders : reqPc[o] \in {"idle", "done"}
    /\ pending = {}

\* the clock moves on by TickMs
Advance ==
    /\ TimerPending \/ CooldownPending
    /\ ~TimerDue
    /\ Quiescent
    /\ now' = now + TickMs
    /\ UNCHANGED <<serviceHealth, reqPc, response, db, pending, saga, hist,
                   published, rejectsLeft, recoveriesLeft, clients, driverReq,
                   request, statusReq, downstream,
                   resultOk,
                   healthReq, rosCall>>

\* the clock moves on within the horizon of MaxTicks
Tick ==
    /\ now < MaxTicks * TickMs
    /\ Advance

\* the requests, callbacks and continuations of the order service
Handlers ==
    \/ \E o \in Orders, p \in Payloads : SubmitOrder(o, p)
    \/ \E o \in Orders : CreateOrderDone(o)
    \/ \E o \in Orders, ok \in BOOLEAN : EmitAccepted(o, ok)
    \/ \E o \in Orders, ok \in BOOLEAN : EmitStart(o, ok)
    \/ \E o \in Orders : RespondAccepted(o)
    \/ \E o \in Orders : ConsumeStart(o)
    \/ \E i \in SagaIds : SagaBegin(i)
    \/ \E i \in SagaIds, ok \in BOOLEAN : EmitStarted(i, ok)
    \/ \E i \in SagaIds : CallReturns(i)
    \/ \E i \in SagaIds, e \in UNION {AdapterErrors(v) : v \in Services} :
          CallThrows(i, e)
    \/ \E i \in SagaIds, ok \in BOOLEAN : EmitRetry(i, ok)
    \/ \E i \in SagaIds : WakeUp(i)
    \/ \E i \in SagaIds : CompensationDone(i)
    \/ \E i \in SagaIds, ok \in BOOLEAN : EmitCompensated(i, ok)
    \/ \E i \in SagaIds : PersistStep(i)
    \/ \E i \in SagaIds, ok \in BOOLEAN : EmitStepDone(i, ok)
    \/ \E i \in SagaIds : PersistReady(i)
    \/ \E i \in SagaIds, ok \in BOOLEAN : EmitReady(i, ok)
    \/ \E i \in SagaIds : PersistFailed(i)
    \/ \E i \in SagaIds, ok \in BOOLEAN : EmitFailed(i, ok)
    \/ \E svc \in Services : RecoverService(svc)

Next == Handlers \/ Tick

Spec == Init /\ [][Next]_vars

\* One client's order followed to its end, with no horizon on the clock:
\* the event loop runs every callback that is ready, every timer fires and
\* every call to the table, the broker and an adapter settles.
InitLive == Init /\ clients = {"o1"}

NextLive == Handlers \/ Advance

SpecLive == InitLive /\ [][NextLive]_vars /\ WF_vars(NextLive)

\* the service never answers the request of saga i: the promise of
\* axios.post stays pending, with the request timer running if the adapter
\* set one
CallHangs(i) ==
    LET s == saga[i]
        timeout == AdapterTimeout(StepService(s.step))
    IN /\ s.pc = "inCall"
       /\ saga' = [saga EXCEPT ![i] =
                     [s EXCEPT !.pc = "hung",
                               !.wakeAt = IF timeout = <<>> THEN @
                                          ELSE now + timeout[1]]]
       /\ UNCHANGED <<now, serviceHealth, reqPc, response, db, pending, hist,
                      published, rejectsLeft, recoveriesLeft, clients,
                      driverReq, request, statusReq, downstream, resultOk,
                   healthReq, rosCall>>

\* the request timer of saga i's call fires: axios rejects, the adapter
\* rethrows and callServiceWithRetry's catch block runs
CallTimesOut(i) ==
    LET s == saga[i]
        svc == StepService(s.step)
        r == FailAttempt(s, hist[i], serviceHealth[svc],
                         CHOOSE e \in AdapterErrors(svc) : TRUE, now)
    IN /\ s.pc = "hung"
       /\ AdapterTimeout(svc) # <<>>
       /\ now >= s.wakeAt
       /\ saga' = [saga EXCEPT ![i] = r.saga]
       /\ hist' = [hist EXCEPT ![i] = r.hist]
       /\ serviceHealth' = [serviceHealth EXCEPT ![svc] = r.health]
       /\ UNCHANGED <<now, reqPc, response, db, pending, published,
                      rejectsLeft, recoveriesLeft, clients, driverReq,
                      request, statusReq, downstream, resultOk,
                   healthReq, rosCall>>

NextTimeout ==
    \/ NextLive
    \/ \E i \in SagaIds : CallHangs(i)
    \/ \E i \in SagaIds : CallTimesOut(i)

SpecTimeout == InitLive /\ [][NextTimeout]_vars /\ WF_vars(NextTimeout)

\* the runs of processDistributedTransaction started or about to be started
\* for order o
Deliveries(o) ==
    Cardinality({i \in SagaIds : saga[i].order = o})
    + (IF o \in pending THEN 1 ELSE 0)

\* at-least-once delivery: the broker hands the order's START event to the
\* consumer again
Redeliver(o) ==
    /\ \E n \in 1..Len(published[o]) :
          published[o][n] = "DISTRIBUTED_TRANSACTION_START"
    /\ o \notin pending
    /\ Deliveries(o) >= 1
    /\ Deliveries(o) < 1 + MaxRedeliveries
    /\ pending' = pending \cup {o}
    /\ UNCHANGED <<now, serviceHealth, reqPc, response, db, saga, hist,
                   published, clients, rejectsLeft, recoveriesLeft, driverReq,
                   request, statusReq, downstream,
                   resultOk,
                   healthReq, rosCall>>

\* the order service behind a broker that may deliver a START event again
\* the handlers of a run whose downstream calls all return, and the broker
\* delivering the start event again
NextRedelivery ==
    \/ \E o \in Orders, p \in Payloads : SubmitOrder(o, p)
    \/ \E o \in Orders : CreateOrderDone(o)
    \/ \E o \in Orders, ok \in BOOLEAN : EmitAccepted(o, ok)
    \/ \E o \in Orders, ok \in BOOLEAN : EmitStart(o, ok)
    \/ \E o \in Orders : RespondAccepted(o)
    \/ \E o \in Orders : ConsumeStart(o)
    \/ \E i \in SagaIds : SagaBegin(i)
    \/ \E i \in SagaIds, ok \in BOOLEAN : EmitStarted(i, ok)
    \/ \E i \in SagaIds : CallReturns(i)
    \/ \E i \in SagaIds : PersistStep(i)
    \/ \E i \in SagaIds, ok \in BOOLEAN : EmitStepDone(i, ok)
    \/ \E i \in SagaIds : PersistReady(i)
    \/ \E i \in SagaIds, ok \in BOOLEAN : EmitReady(i, ok)
    \/ \E o \in Orders : Redeliver(o)

\* one client, a broker that accepts every publish, no operator
InitRedelivery ==
    /\ InitScenario([clients |-> {"o1"}, rejectsLeft |-> 0,
                     recoveriesLeft |-> 0])
    /\ downstream = DownstreamStart

SpecRedelivery == InitRedelivery /\ [][NextRedelivery]_vars

(***************************************************************************)
(* ROSAdapter.makeRequestWithRetry                                         *)
(***************************************************************************)
maxRetries == 3

\* what axios.post can reject with: a response with an error status, or no
\* response and an error code
RosErrors ==
    [status : {<<s>> : s \in {400, 408, 429, 500, 502, 503, 504}},
     code : {"ERR_BAD_RESPONSE"}]
    \cup [status : {<<>>},
          code : {"ECONNRESET", "ETIMEDOUT", "ECONNABORTED", "ECONNREFUSED"}]

\* a classification that retries every error response
isRetryableErrorAnyStatus(error) ==
    \/ error.status # <<>>
    \/ error.code = "ECONNRESET"
    \/ error.code = "ETIMEDOUT"

isRetryableError(error) ==
    \/ /\ error.status # <<>>
       /\ error.status[1] \in {408, 429, 500, 502, 503, 504}
    \/ error.code = "ECONNRESET"
    \/ error.code = "ETIMEDOUT"

\* Math.pow(2, attempt) * 1000
RosBackoff(attempt) == (2 ^ attempt) * 1000

\* optimizeRoute calls makeRequestWithRetry(url, payload): attempt = 1 and
\* the first axios.post is issued
RosInvoke ==
    /\ rosCall.pc \in {"idle", "resolved", "rejected"}
    /\ rosCall.invocations < MaxInvocations
    /\ rosCall' = [pc |-> "request", attempt |-> 1, requests |-> 1,
                   delays |-> <<>>, errors |-> <<>>,
                   invocations |-> rosCall.invocations + 1]
    /\ UNCHANGED <<now, serviceHealth, reqPc, response, db, pending, saga,
                   hist, published, clients, rejectsLeft, recoveriesLeft,
                   driverReq, request, statusReq, downstream, resultOk,
                   healthReq>>

\* axios.post resolves: response.data is returned
RosResponds ==
    /\ rosCall.pc = "request"
    /\ rosCall' = [rosCall EXCEPT !.pc = "resolved"]
    /\ UNCHANGED <<now, serviceHealth, reqPc, response, db, pending, saga,
                   hist, published, clients, rejectsLeft, recoveriesLeft,
                   driverReq, request, statusReq, downstream, resultOk,
                   healthReq>>

\* axios.post rejects with error: the catch block sleeps and retries, or
\* rethrows
RosFails(error) ==
    /\ rosCall.pc = "request"
    /\ rosCall' =
          IF rosCall.attempt < maxRetries /\ isRetryableError(error)
          THEN [rosCall EXCEPT !.pc = "backoff",
                               !.errors = Append(@, error),
                               !.delays = Append(@, RosBackoff(rosCall.attempt))]
          ELSE [rosCall EXCEPT !.pc = "rejected",
                               !.errors = Append(@, error)]
    /\ UNCHANGED <<now, serviceHealth, reqPc, response, db, pending, saga,
                   hist, published, clients, rejectsLeft, recoveriesLeft,
                   driverReq, request, statusReq, downstream, resultOk,
                   healthReq>>

\* the backoff timer fired: makeRequestWithRetry(url, payload, attempt + 1)
RosBackoffDone ==
    /\ rosCall.pc = "backoff"
    /\ rosCall' = [rosCall EXCEPT !.pc = "request", !.attempt = @ + 1,
                                  !.requests = @ + 1]
    /\ UNCHANGED <<now, serviceHealth, reqPc, response, db, pending, saga,
                   hist, published, clients, rejectsLeft, recoveriesLeft,
                   driverReq, request, statusReq, downstream, resultOk,
                   healthReq>>

NextRosAdapter ==
    \/ RosInvoke
    \/ RosResponds
    \/ \E error \in RosErrors : RosFails(error)
    \/ RosBackoffDone

SpecRosAdapter == InitRedelivery /\ [][NextRosAdapter]_vars

(***************************************************************************)
(* GET /api/services/health                                                *)
(***************************************************************************)
\* a summary that calls a service open as soon as it has a failure counted
getServiceHealthByCount(registry) ==
    [overall |-> IF \A svc \in Services : registry[svc].available
                 THEN "healthy" ELSE "degraded",
     services |-> [svc \in Services |->
        [status |-> IF registry[svc].consecutiveFailures = 0
                    THEN "available" ELSE "circuit_open",
         consecutiveFailures |-> registry[svc].consecutiveFailures,
         lastFailure |-> registry[svc].lastFailure,
         nextRetryAllowed |->
            IF registry[svc].lastFailure = <<>> THEN <<>>
            ELSE <<registry[svc].lastFailure[1] + CIRCUIT_BREAKER_TIMEOUT>>]]]

\* healthSummary: built from the stored entries of the registry
getServiceHealth(registry) ==
    [overall |-> IF \A svc \in Services : registry[svc].available
                 THEN "healthy" ELSE "degraded",
     services |-> [svc \in Services |->
        [status |-> IF registry[svc].available
                    THEN "available" ELSE "circuit_open",
         consecutiveFailures |-> registry[svc].consecutiveFailures,
         lastFailure |-> registry[svc].lastFailure,
         nextRetryAllowed |->
            IF registry[svc].lastFailure = <<>> THEN <<>>
            ELSE <<registry[svc].lastFailure[1] + CIRCUIT_BREAKER_TIMEOUT>>]]]

\* the handler: synchronous, answers with the summary
GetServiceHealth ==
    /\ healthReq.calls < MaxQueries
    /\ healthReq' = [calls |-> healthReq.calls + 1,
                     report |-> <<getServiceHealth(serviceHealth)>>]
    /\ UNCHANGED <<now, serviceHealth, reqPc, response, db, pending, saga,
                   hist, published, clients, rejectsLeft, recoveriesLeft,
                   driverReq, request, statusReq, downstream, resultOk,
                   rosCall>>

NextHealth == Next \/ GetServiceHealth

InitHealth == Init /\ clients = {"o1"}

SpecHealth == InitHealth /\ [][NextHealth]_vars

(***************************************************************************)
(* Adapter results                                                         *)
(***************************************************************************)
\* the "ok" member of a downstream reply with a 2xx status: absent, true or
\* false
ReplyOk == {<<>>, <<TRUE>>, <<FALSE>>}

\* WMSAdapter.parseTcpResponse: ok is "tcpResponse.ok || true"
parseTcpResponse(ok) == TRUE

\* ROSAdapter.parseRestResponse: ok is "restResponse.ok || true"
parseRestResponse(ok) == TRUE

\* CMSAdapter.parseSoapXmlResponse: the reply's ok if it has one, otherwise
\* whether the text holds the SUCCESS tag, which a JSON body does not
parseSoapXmlResponse(ok) == IF ok # <<>> THEN ok[1] ELSE FALSE

\* the ok member of the result the adapter of step k makes of a reply
AdapterOk(k, ok) ==
    CASE k = 1 -> parseSoapXmlResponse(ok)
      [] k = 2 -> parseTcpResponse(ok)
      [] k = 3 -> parseRestResponse(ok)

\* the adapter call of saga i resolves with the result made of a 2xx reply:
\* callServiceWithRetry records a success and returns the result without
\* reading its ok member
AdapterReturns(i, ok) ==
    LET s == saga[i]
        svc == StepService(s.step)
    IN /\ s.pc = "inCall"
       /\ serviceHealth' = [serviceHealth EXCEPT
                              ![svc] = recordServiceSuccess(@)]
       /\ saga' = [saga EXCEPT ![i] =
                     [s EXCEPT !.pc = "persistStep",
                               !.result = AdapterResult(s.step),
                               !.completedSteps = Append(@, s.step),
                               !.compensationActions = Append(@, s.step)]]
       /\ resultOk' = [resultOk EXCEPT ![i] = AdapterOk(s.step, ok)]
       /\ UNCHANGED <<now, reqPc, response, db, pending, hist, published,
                      rejectsLeft, recoveriesLeft, clients, driverReq,
                      request, statusReq, downstream,
                   healthReq, rosCall>>

NextAdapter == Next \/ \E i \in SagaIds, ok \in ReplyOk : AdapterReturns(i, ok)

InitAdapter == Init /\ clients = {"o1"}

SpecAdapter == InitAdapter /\ [][NextAdapter]_vars

(***************************************************************************)
(* Driver service: PUT /api/drivers/:driverId/deliveries/:packageId/status *)
(***************************************************************************)
validStatuses == {"DELIVERED", "FAILED", "ATTEMPTED", "OUT_FOR_DELIVERY"}

\* getDriverManifest: the orders assigned to a driver that are ready for or
\* out for delivery
InManifest(row) ==
    /\ row.status \in {"READY_FOR_DELIVERY", "OUT_FOR_DELIVERY"}
    /\ row.assigned_driver_id # NULL

\* an UPDATE that also clears the route the order was given
updateOrderDeliveryStatusClearingRoute(row, status) ==
    IF StatusAccepted(status)
    THEN [row EXCEPT !.status = status, !.route_id = NULL,
                     !.events = Append(@, OrderEvent("DELIVERY_STATUS_UPDATED",
                                                     NoData))]
    ELSE row

\* DriverRepository.updateOrderDeliveryStatus: the row after the UPDATE
updateOrderDeliveryStatus(row, status) ==
    IF StatusAccepted(status)
    THEN [row EXCEPT !.status = status,
                     !.events = Append(@, OrderEvent("DELIVERY_STATUS_UPDATED",
                                                     NoData))]
    ELSE row

\* the delivery-status updates recorded for an order
DeliveryUpdates(row) ==
    Cardinality({n \in 1..Len(row.events) :
                   row.events[n].event_type = "DELIVERY_STATUS_UPDATED"})

\* the handler validated the status and found the order in the manifest
DriverRequest(o, status) ==
    /\ driverReq[o] = NULL
    /\ status \in validStatuses
    /\ InManifest(db[o])
    /\ DeliveryUpdates(db[o]) < MaxDeliveryUpdates
    /\ driverReq' = [driverReq EXCEPT ![o] = status]
    /\ UNCHANGED <<now, serviceHealth, reqPc, response, db, pending, saga,
                   hist, published, clients, rejectsLeft, recoveriesLeft,
                   request, statusReq, downstream,
                   resultOk,
                   healthReq, rosCall>>

\* the handler's UPDATE of the orders table settled
DriverUpdate(o) ==
    /\ driverReq[o] # NULL
    /\ db' = [db EXCEPT ![o] = updateOrderDeliveryStatus(@, driverReq[o])]
    /\ driverReq' = [driverReq EXCEPT ![o] = NULL]
    /\ UNCHANGED <<now, serviceHealth, reqPc, response, pending, saga, hist,
                   published, clients, rejectsLeft, recoveriesLeft,
                   request, statusReq, downstream,
                   resultOk,
                   healthReq, rosCall>>

\* the order service together with the driver service
NextSystem ==
    \/ Next
    \/ \E o \in Orders, status \in validStatuses : DriverRequest(o, status)
    \/ \E o \in Orders : DriverUpdate(o)

\* one client's order followed from submission to its delivery
InitSystem == Init /\ clients = {"o1"}

SpecSystem == InitSystem /\ [][NextSystem]_vars

(***************************************************************************)
(* GET /api/orders/:orderId/status: the response computed from the row     *)
(* getOrderById returned and the rows getOrderEvents returned              *)
(***************************************************************************)
\* Math.round of the quotient n / d of two naturals
Round(n, d) == (2 * n + d) \div (2 * d)

totalSteps == 3

\* the count of the step timestamps that are set
completedSteps(order) ==
    (IF order.cms_verified_at # <<>> THEN 1 ELSE 0)
    + (IF order.wms_registered_at # <<>> THEN 1 ELSE 0)
    + (IF order.ros_optimized_at # <<>> THEN 1 ELSE 0)

\* a stage computation that has no stage between the third step and the
\* final status
currentStageWithoutFinalizing(order) ==
    IF order.ros_optimized_at # <<>> THEN "READY_FOR_DELIVERY"
    ELSE IF order.wms_registered_at # <<>> THEN "ROS_PROCESSING"
    ELSE IF order.cms_verified_at # <<>> THEN "WMS_PROCESSING"
    ELSE IF order.status = "PROCESSING" THEN "CMS_PROCESSING"
    ELSE "QUEUED"

\* the stage the response reports
currentStage(order) ==
    IF order.ready_for_delivery_at # <<>> THEN "READY_FOR_DELIVERY"
    ELSE IF order.ros_optimized_at # <<>> THEN "FINALIZING"
    ELSE IF order.wms_registered_at # <<>> THEN "ROS_PROCESSING"
    ELSE IF order.cms_verified_at # <<>> THEN "WMS_PROCESSING"
    ELSE IF order.status = "PROCESSING" THEN "CMS_PROCESSING"
    ELSE "QUEUED"

progressPercentage(completed) == Round(completed * 100, totalSteps)

\* the status of a step in the "steps" list
stepStatus(timestamp, inProgress) ==
    IF timestamp # <<>> THEN "COMPLETED"
    ELSE IF inProgress THEN "IN_PROGRESS"
    ELSE "PENDING"

\* a response that also carries the time at which it was computed
getOrderStatusStamped(order, events) ==
    [ok |-> TRUE, status |-> order.status, retrievedAt |-> now]

\* the body of the 200 response
getOrderStatus(order, events) ==
    [ok |-> TRUE,
     status |-> order.status,
     currentStage |-> currentStage(order),
     completed |-> completedSteps(order),
     total |-> totalSteps,
     percentage |-> progressPercentage(completedSteps(order)),
     steps |-> <<stepStatus(order.cms_verified_at,
                            currentStage(order) = "CMS_PROCESSING"),
                 stepStatus(order.wms_registered_at,
                            currentStage(order) = "WMS_PROCESSING"),
                 stepStatus(order.ros_optimized_at,
                            currentStage(order) = "ROS_PROCESSING")>>,
     results |-> [cms |-> IF order.cms_verified_at # <<>>
                          THEN order.contract_id ELSE NULL,
                  wms |-> IF order.wms_registered_at # <<>>
                          THEN order.warehouse_package_id ELSE NULL,
                  ros |-> IF order.ros_optimized_at # <<>>
                          THEN order.route_id ELSE NULL],
     submittedAt |-> order.submitted_at,
     processingEvents |-> Len(events),
     cancel |-> IF order.status = "PROCESSING" THEN "available"
                ELSE "not_available"]

\* the body of the 404 response
NotFound == [ok |-> FALSE, error |-> "Order not found"]

\* a request answered: the row getOrderById returned, the row as it was when
\* the response was sent, and the response
Served(o, before, after, view) ==
    [orderId |-> o, before |-> before, after |-> after, view |-> view]

\* the handler from the request to its second await: getOrderById settled,
\* and an unknown order is answered 404
StatusGetOrder(o) ==
    /\ o \in clients
    /\ statusReq.pc = "idle"
    /\ Len(statusReq.served) < MaxQueries
    /\ statusReq' =
           IF db[o] = NoRow
           THEN [statusReq EXCEPT
                   !.served = Append(@, Served(o, NoRow, NoRow, NotFound))]
           ELSE [statusReq EXCEPT !.pc = "getOrderEvents", !.orderId = o,
                                  !.order = db[o]]
    /\ UNCHANGED <<now, serviceHealth, reqPc, response, db, pending, saga,
                   hist, published, clients, rejectsLeft, recoveriesLeft,
                   driverReq, request, downstream,
                   resultOk,
                   healthReq, rosCall>>

\* getOrderEvents settled: the handler computes the response and sends it
StatusRespond ==
    /\ statusReq.pc = "getOrderEvents"
    /\ LET o == statusReq.orderId
       IN statusReq' =
              [StatusIdle EXCEPT
                 !.served =
                     Append(statusReq.served,
                            Served(o, statusReq.order, db[o],
                                   getOrderStatus(statusReq.order,
                                                  db[o].events)))]
    /\ UNCHANGED <<now, serviceHealth, reqPc, response, db, pending, saga,
                   hist, published, clients, rejectsLeft, recoveriesLeft,
                   driverReq, request, downstream,
                   resultOk,
                   healthReq, rosCall>>

\* the order service with a client that polls the status of its order
NextQuery ==
    \/ Next
    \/ \E o \in Orders : StatusGetOrder(o)
    \/ StatusRespond

InitQuery == Init /\ clients = {"o1"}

SpecQuery == InitQuery /\ [][NextQuery]_vars

\* the WMS mock handles POST /register for the order
WmsRegister ==
    /\ Len(downstream.registered) < MaxInvocations
    /\ LET r == registerPackages(downstream.inventory,
                                 downstream.order.packages)
       IN downstream' = [downstream EXCEPT
                           !.inventory = r.inventory,
                           !.registered = Append(@, r.code)]
    /\ UNCHANGED <<now, serviceHealth, reqPc, response, db, pending, saga,
                   hist, published, clients, rejectsLeft, recoveriesLeft,
                   driverReq, request, statusReq,
                   resultOk,
                   healthReq, rosCall>>

\* the ROS mock handles POST /optimize-route for the order
RosOptimize ==
    /\ Len(downstream.optimized) < MaxInvocations
    /\ LET r == optimizeRoute(downstream.fleet, downstream.order)
       IN downstream' = [downstream EXCEPT
                           !.fleet = r.fleet,
                           !.optimized = Append(@, r)]
    /\ UNCHANGED <<now, serviceHealth, reqPc, response, db, pending, saga,
                   hist, published, clients, rejectsLeft, recoveriesLeft,
                   driverReq, request, statusReq,
                   resultOk,
                   healthReq, rosCall>>

\* the mocks invoked for one order, once or again as a retry does
InitDownstream == InitOrderService /\ downstream \in DownstreamStarts

NextDownstream == WmsRegister \/ RosOptimize

SpecDownstream == InitDownstream /\ [][NextDownstream]_vars

(***************************************************************************)
(* Properties                                                              *)
(***************************************************************************)
\* the sagas that have been started
Started == {i \in SagaIds : saga[i].pc # "free"}

\* the sagas whose step ran out of retries
Exhausted == {i \in Started : hist[i].exhausted # 0}

\* the saga left processDistributedTransaction
Ended(i) == saga[i].pc = "done"

\* the compensation loop of saga i has finished
Compensated(i) ==
    saga[i].pc \in {"emitCompensated", "persistFailed", "emitFailed", "done"}

\* C1: when step k of an order fails terminally after its retries are
\* exhausted, the compensations invoked are those of steps k-1, ..., 1, each
\* once and in that order, never that of step k, and the order's final
\* persisted status is FAILED.
C1_CompensationReverseThenFailed ==
    \A i \in Exhausted :
        LET k == hist[i].exhausted
            log == hist[i].compLog
        IN /\ Len(log) <= k - 1
           /\ \A j \in 1..Len(log) : log[j] = k - j
           /\ Compensated(i) => Len(log) = k - 1
           /\ Ended(i) => db[saga[i].order].status = "FAILED"

\* step 3 failed terminally, steps 2 and 1 were compensated, the saga ended
C1_Witness ==
    \E i \in Exhausted :
        /\ hist[i].exhausted = 3
        /\ hist[i].compLog = <<2, 1>>
        /\ Ended(i)

\* C2: an order whose three steps all succeeded ends with status
\* READY_FOR_DELIVERY, its three result fields set and its step timestamps
\* in non-decreasing order.
C2_AllStepsSucceededEndsReady ==
    \A i \in Started :
        (Ended(i) /\ Len(saga[i].completedSteps) = 3) =>
            LET row == db[saga[i].order]
            IN /\ row.status = "READY_FOR_DELIVERY"
               /\ row.contract_id # NULL
               /\ row.warehouse_package_id # NULL
               /\ row.route_id # NULL
               /\ row.cms_verified_at # <<>>
               /\ row.wms_registered_at # <<>>
               /\ row.ros_optimized_at # <<>>
               /\ row.ready_for_delivery_at # <<>>
               /\ row.cms_verified_at[1] <= row.wms_registered_at[1]
               /\ row.wms_registered_at[1] <= row.ros_optimized_at[1]
               /\ row.ros_optimized_at[1] <= row.ready_for_delivery_at[1]

\* C3: within one order the steps run in the order CMS, WMS, ROS: a step is
\* attempted only after every earlier step succeeded, and after a step's
\* terminal failure no later step is ever attempted.
C3_StepsStrictlySequential ==
    \A i \in Started :
        LET done == saga[i].completedSteps
        IN /\ \A j \in 1..Len(done) : done[j] = j
           /\ \A k \in Steps : hist[i].attempts[k] > 0 => Len(done) >= k - 1
           /\ hist[i].exhausted # 0 =>
                 \A m \in Steps :
                     m > hist[i].exhausted => hist[i].attempts[m] = 0

\* step 2 failed terminally after step 1 succeeded, and the saga ended
C3_Witness ==
    \E i \in Exhausted :
        /\ hist[i].exhausted = 2
        /\ saga[i].completedSteps = <<1>>
        /\ hist[i].attempts[3] = 0
        /\ Ended(i)

\* the circuit of a service is open and its cooldown has not elapsed
CircuitOpen(svc) ==
    /\ ~serviceHealth[svc].available
    /\ SinceLastFailure(serviceHealth[svc], now) <= CIRCUIT_BREAKER_TIMEOUT

\* the cooldown of an open circuit has elapsed and no attempt was made since
CooledDown(svc) ==
    /\ ~serviceHealth[svc].available
    /\ SinceLastFailure(serviceHealth[svc], now) > CIRCUIT_BREAKER_TIMEOUT

TerminalErrorOf(i, attempts) ==
    [kind |-> "TERMINAL",
     errorType |-> saga[i].lastError.errorType,
     suggestedAction |-> saga[i].lastError.suggestedAction,
     serviceName |-> StepService(hist[i].exhausted),
     retryAttempts |-> attempts]

\* the terminal error is pending: compensation runs before it is rethrown
TerminalPending(i) == saga[i].pc \in {"compensating", "emitCompensated"}

\* C5: a step whose every attempt fails is attempted MAX_RETRY_ATTEMPTS + 1
\* = 6 times, attempts rejected by an open circuit included, and the terminal
\* error carries 6 attempts, the service and the last error's details.
C5_SixAttemptsThenTerminalError ==
    \A i \in Exhausted :
        LET k == hist[i].exhausted
        IN /\ hist[i].attempts[k] = MAX_RETRY_ATTEMPTS + 1
           /\ hist[i].attempts[k] = 6
           /\ saga[i].retryCount = MAX_RETRY_ATTEMPTS
           /\ saga[i].lastError.kind \in {"ADAPTER", "CIRCUIT_OPEN"}
           /\ TerminalPending(i) => saga[i].err = TerminalErrorOf(i, 6)

\* a step ran out of retries with attempts rejected by the open circuit
\* among them, and its terminal error is pending
C5_Witness ==
    \E i \in Exhausted :
        /\ hist[i].fastFails > 0
        /\ hist[i].calls[hist[i].exhausted] > 0
        /\ TerminalPending(i)
        /\ saga[i].err.kind = "TERMINAL"

\* C5 as the specification words it: 5 attempts in total, 5 reported
C5_FiveAttempts ==
    \A i \in Exhausted :
        /\ hist[i].attempts[hist[i].exhausted] = 5
        /\ TerminalPending(i) => saga[i].err = TerminalErrorOf(i, 5)

\* C6: the backoff delays of a step are 2000, 4000, 8000, 16000, 32000 ms
\* in this order, and a step whose attempts all fail sleeps all five of
\* them: 5 delays between 6 attempts.
C6_FiveDoublingDelays ==
    \A i \in Started :
        LET d == hist[i].delays
        IN /\ Len(d) <= 5
           /\ \A j \in 1..Len(d) : d[j] = <<2000, 4000, 8000, 16000, 32000>>[j]
           /\ i \in Exhausted => d = <<2000, 4000, 8000, 16000, 32000>>

\* a step ran out of retries after sleeping 32000 ms before its last attempt
C6_Witness ==
    \E i \in Exhausted :
        /\ Len(hist[i].delays) = 5
        /\ hist[i].delays[5] = 32000
        /\ Ended(i)

\* C6 as the specification words it: 4 delays between 5 attempts
C6_FourDelays ==
    \A i \in Exhausted : hist[i].delays = <<2000, 4000, 8000, 16000>>

\* C7: the 202 acknowledgment of an accepted order has been sent by the time
\* the saga of that order executes its first action.
C7_AcknowledgedBeforeSagaStarts ==
    \A i \in Started :
        saga[i].pc # "scheduled" => response[saga[i].order] = Accepted

\* saga i makes an attempt of step k in this step of the system
Attempts(i, k) == hist'[i].attempts[k] = hist[i].attempts[k] + 1

\* C8: while the circuit of a service is open (opened by the failures of
\* some order, not yet cooled down, not recovered), an attempt of any order
\* against that service fails fast: it is counted as rejected by the open
\* circuit and starts no downstream call.
C8_OpenCircuitFailsFast ==
    [][\A i \in SagaIds, k \in Steps :
          (CircuitOpen(StepService(k)) /\ Attempts(i, k)) =>
              /\ hist'[i].calls[k] = hist[i].calls[k]
              /\ hist'[i].fastFails = hist[i].fastFails + 1
              /\ saga'[i].pc # "inCall"]_vars

\* the failures of one order opened the circuit of the CMS, and every
\* attempt of a concurrently running order was rejected without a call
C8_Witness ==
    \E i, j \in Started :
        /\ i # j
        /\ CircuitOpen("cms")
        /\ hist[i].calls[1] >= CIRCUIT_BREAKER_THRESHOLD
        /\ hist[j].attempts[1] > 0
        /\ hist[j].calls[1] = 0
        /\ hist[j].fastFails = hist[j].attempts[1]

\* the rows of the orders table
Rows == {o \in Orders : db[o] # NoRow}

\* C9: the persisted status of every order is one of SUBMITTED,
\* CMS_VERIFIED, WMS_REGISTERED, ROS_OPTIMIZED, READY_FOR_DELIVERY, FAILED,
\* OUT_FOR_DELIVERY, DELIVERED, CANCELLED, while and after compensation runs
\* included: the compensation markers never become the status.
C9_StatusIsOneOfNine ==
    \A o \in Rows :
        db[o].status \in {"SUBMITTED", "CMS_VERIFIED", "WMS_REGISTERED",
                          "ROS_OPTIMIZED", "READY_FOR_DELIVERY", "FAILED",
                          "OUT_FOR_DELIVERY", "DELIVERED", "CANCELLED"}

\* the compensations of two completed steps ran against the table
C9_Witness ==
    \E i \in Started :
        /\ Len(hist[i].compLog) = 2
        /\ saga[i].pc = "emitCompensated"
        /\ db[saga[i].order].status = "WMS_REGISTERED"

\* C9 as the specification words it: one of seven statuses
C9_StatusIsOneOfSeven ==
    \A o \in Rows :
        db[o].status \in {"SUBMITTED", "CMS_VERIFIED", "WMS_REGISTERED",
                          "ROS_OPTIMIZED", "READY_FOR_DELIVERY", "FAILED",
                          "CANCELLED"}

\* the forward progression of the status
Progression == <<"SUBMITTED", "CMS_VERIFIED", "WMS_REGISTERED",
                 "ROS_OPTIMIZED", "READY_FOR_DELIVERY">>
Rank(status) == CHOOSE n \in 1..Len(Progression) : Progression[n] = status
InProgression(status) == \E n \in 1..Len(Progression) : Progression[n] = status
TerminalStatus(status) == status \in {"FAILED", "READY_FOR_DELIVERY"}

\* a change of status the progression allows
StatusStep(a, b) ==
    \/ a = b
    \/ a = NULL /\ b = "SUBMITTED"
    \/ InProgression(a) /\ InProgression(b) /\ Rank(a) < Rank(b)
    \/ b = "FAILED" /\ InProgression(a) /\ ~TerminalStatus(a)

\* C10: the persisted status of an order only moves forward along SUBMITTED,
\* CMS_VERIFIED, WMS_REGISTERED, ROS_OPTIMIZED, READY_FOR_DELIVERY, or to
\* FAILED from a status that is not terminal; FAILED and READY_FOR_DELIVERY
\* are never changed again.
C10_StatusForwardOrFailed ==
    [][\A o \in Orders : StatusStep(db[o].status, db'[o].status)]_vars

\* the result field and the timestamp a step's update sets
StepResult(row, k) ==
    <<row.contract_id, row.warehouse_package_id, row.route_id>>[k]
StepTimestamp(row, k) ==
    <<row.cms_verified_at, row.wms_registered_at, row.ros_optimized_at>>[k]
StepRecorded(row, k) == StepResult(row, k) # NULL /\ StepTimestamp(row, k) # <<>>
StepBlank(row, k) == StepResult(row, k) = NULL /\ StepTimestamp(row, k) = <<>>

\* C11: a step's result field and timestamp are set together, and they are
\* set if and only if the status has reached or passed the step's stage:
\* while the status is on the progression, exactly the steps up to it are
\* recorded; a status off the progression (FAILED) leaves every step as
\* the status before it had it.
C11_StepFieldsFollowStatus ==
    [][\A o \in Orders :
          db'[o] # NoRow =>
              \A k \in Steps :
                  /\ StepRecorded(db'[o], k) \/ StepBlank(db'[o], k)
                  /\ InProgression(db'[o].status) =>
                        (StepRecorded(db'[o], k)
                           <=> Rank(db'[o].status) >= k + 1)
                  /\ ~InProgression(db'[o].status) =>
                        /\ db[o] # NoRow
                        /\ StepRecorded(db'[o], k) <=> StepRecorded(db[o], k)
      ]_vars

\* an order failed at its second step: the first step's fields are set and
\* those of the second and third are not
C11_Witness ==
    \E o \in Rows :
        /\ db[o].status = "FAILED"
        /\ StepRecorded(db[o], 1)
        /\ StepBlank(db[o], 2)
        /\ StepBlank(db[o], 3)

\* C12: a service whose availability flag is false has at least 3
\* consecutive failures recorded, the last of them at a known time; and
\* isServiceAvailable answers false only for such a service and only while
\* no more than 30000 ms have passed since its last failure.  The flag
\* itself stays false after the cooldown until the next check resets it.
C12_UnavailableOnlyAfterThreshold ==
    \A svc \in Services :
        LET h == serviceHealth[svc]
        IN /\ ~h.available =>
                 /\ h.consecutiveFailures >= CIRCUIT_BREAKER_THRESHOLD
                 /\ h.lastFailure # <<>>
           /\ ~isServiceAvailable(h, now) =>
                 /\ h.consecutiveFailures >= CIRCUIT_BREAKER_THRESHOLD
                 /\ SinceLastFailure(h, now) <= CIRCUIT_BREAKER_TIMEOUT

\* the flag of a service is still false although more than 30000 ms have
\* passed since its last failure
C12_Witness ==
    \E svc \in Services :
        /\ ~serviceHealth[svc].available
        /\ serviceHealth[svc].lastFailure # <<>>
        /\ now - serviceHealth[svc].lastFailure[1] > CIRCUIT_BREAKER_TIMEOUT

\* C12 as the specification words it: the flag is false only while fewer
\* than 30000 ms have passed since the last failure
C12_FlagFalseOnlyWithinCooldown ==
    \A svc \in Services :
        ~serviceHealth[svc].available =>
            /\ serviceHealth[svc].consecutiveFailures
                 >= CIRCUIT_BREAKER_THRESHOLD
            /\ SinceLastFailure(serviceHealth[svc], now)
                 < CIRCUIT_BREAKER_TIMEOUT

\* a saga was started for the order
SagaStarted(o) == \E i \in Started : saga[i].order = o

\* the persisted status of the order is a terminal one
TerminalRow(o) == TerminalStatus(db[o].status)

StatusView(o) == getOrderStatus(db[o], db[o].events)

\* the data of the last FAILED event of the order: what the catch recorded
FailedEventData(row) ==
    LET idx == {n \in 1..Len(row.events) : row.events[n].event_type = "FAILED"}
    IN row.events[CHOOSE n \in idx : \A m \in idx : m <= n].data

\* C14: for every order whose persisted status is FAILED, the status
\* response contains the error classification and the suggested action that
\* the terminal error carried, unchanged.
C14_FailedViewCarriesError ==
    \A o \in Rows :
        db[o].status = "FAILED" =>
            /\ {"errorType", "suggestedAction"} \subseteq DOMAIN StatusView(o)
            /\ StatusView(o)["errorType"] = FailedEventData(db[o]).errorType
            /\ StatusView(o)["suggestedAction"] =
                   FailedEventData(db[o]).suggestedAction

\* the messages of the required parts the body lacks
MissingFields(p) ==
    {m \in {"order.id is required",
            "clientId is required for Swift Logistics processing",
            "At least one package is required",
            "At least one delivery address is required"} :
        \/ m = "order.id is required" /\ ~p.id
        \/ m = "clientId is required for Swift Logistics processing"
             /\ ~p.clientId
        \/ m = "At least one package is required" /\ p.packages = 0
        \/ m = "At least one delivery address is required"
             /\ p.deliveryAddresses = 0}

\* nothing was done for the order: no row, no event, nothing queued for the
\* consumer, no saga and so no downstream call
NeverEntered(o) ==
    /\ db[o] = NoRow
    /\ published[o] = <<>>
    /\ o \notin pending
    /\ \A i \in SagaIds : saga[i].order # o

\* C15: a submission that lacks the order id, the client id, a non-empty
\* package list or a non-empty list of delivery addresses is answered 400
\* with the message of a part it lacks and never enters the saga: no order
\* row is created, no event is published and no downstream call is made.
C15_IncompleteOrderRejected ==
    \A o \in Orders :
        (request[o] # <<>> /\ MissingFields(request[o][1]) # {}) =>
            /\ reqPc[o] = "done"
            /\ response[o].code = 400
            /\ response[o].error \in MissingFields(request[o][1])
            /\ NeverEntered(o)

\* an order without packages was rejected while another client's order was
\* accepted and processed to its end
C15_Witness ==
    \E o \in Orders, i \in SagaIds :
        /\ request[o] = <<[id |-> TRUE, clientId |-> TRUE, packages |-> 0,
                           deliveryAddresses |-> 1]>>
        /\ response[o] =
               [code |-> 400, error |-> "At least one package is required"]
        /\ NeverEntered(o)
        /\ Ended(i)
        /\ db[saga[i].order].status = "READY_FOR_DELIVERY"

\* the steps whose timestamp is set in the row
StepsDone(row) == {k \in Steps : StepTimestamp(row, k) # <<>>}

\* the first step of the fixed order that is not completed
FirstOpenStep(row) ==
    CHOOSE k \in Steps \ StepsDone(row) : \A j \in Steps \ StepsDone(row) : k <= j

StageName == <<"CMS_PROCESSING", "WMS_PROCESSING", "ROS_PROCESSING">>

\* C16: for every persisted order the status response reports as current
\* stage: READY_FOR_DELIVERY once ready_for_delivery_at is set; FINALIZING
\* while all three step timestamps are set and ready_for_delivery_at is not;
\* the first step not yet completed while some but not all steps are done;
\* and QUEUED while no step is done.
C16_StageFollowsTimestamps ==
    \A o \in Rows :
        LET row == db[o]
            stage == StatusView(o).currentStage
        IN IF row.ready_for_delivery_at # <<>>
              THEN stage = "READY_FOR_DELIVERY" /\ StepsDone(row) = Steps
           ELSE IF StepsDone(row) = Steps THEN stage = "FINALIZING"
           ELSE IF StepsDone(row) = {} THEN stage = "QUEUED"
           ELSE stage = StageName[FirstOpenStep(row)]

\* the third step is persisted, the final status not yet: the stage reported
\* is FINALIZING
C16_Witness ==
    \E o \in Rows :
        /\ db[o].status = "ROS_OPTIMIZED"
        /\ StepsDone(db[o]) = Steps
        /\ db[o].ready_for_delivery_at = <<>>
        /\ StatusView(o).currentStage = "FINALIZING"

\* C16 as stated: the stage is READY_FOR_DELIVERY whenever all three step
\* timestamps are set, the first step not yet completed while some are
\* done, and QUEUED when none is done and the status is SUBMITTED
C16_ReadyWheneverThreeStepsDone ==
    \A o \in Rows :
        LET row == db[o]
            stage == StatusView(o).currentStage
        IN /\ StepsDone(row) = Steps => stage = "READY_FOR_DELIVERY"
           /\ StepsDone(row) \notin {{}, Steps} =>
                  stage = StageName[FirstOpenStep(row)]
           /\ (StepsDone(row) = {} /\ row.status = "SUBMITTED") =>
                  stage = "QUEUED"

\* the progress the response reports for the row: the count of the step
\* timestamps that are set, and its share of the three steps, rounded
ProgressOfRow(o) ==
    /\ StatusView(o).completed = Cardinality(StepsDone(db[o]))
    /\ StatusView(o).percentage =
           <<0, 33, 67, 100>>[Cardinality(StepsDone(db[o])) + 1]
    /\ StatusView(o).percentage = 100 <=> StepsDone(db[o]) = Steps

\* C17: for every persisted order the status response reports completedSteps
\* as the number of step timestamps that are set and percentage as
\* round(completedSteps / 3 * 100), 100 exactly when all three are set; and
\* the response for an order whose saga completed all three steps shows
\* percentage 100 with status READY_FOR_DELIVERY.
C17_ProgressAndReadyAtHundred ==
    /\ \A o \in Rows : ProgressOfRow(o)
    /\ \A i \in Started :
          (Ended(i) /\ Len(saga[i].completedSteps) = totalSteps) =>
              /\ StatusView(saga[i].order).percentage = 100
              /\ StatusView(saga[i].order).status = "READY_FOR_DELIVERY"

\* two answered requests with no write to the order from the first one's
\* read to the second one's response: every write appends to the row's
\* events, so the row read first equals the row found last
NoWriteBetween(served, a, b) == a < b /\ served[a].before = served[b].after

\* C18: the status request is a pure read of the persisted state: a step of
\* its handler changes neither the orders, the circuit-breaker registry nor
\* a saga, and two requests with no write to the order in between are
\* answered identically.
C18_StatusIsPureRead ==
    [][/\ statusReq' # statusReq =>
             /\ UNCHANGED <<db, serviceHealth, saga>>
             /\ UNCHANGED <<hist, published, pending, reqPc, response>>
       /\ \A a, b \in 1..Len(statusReq'.served) :
             NoWriteBetween(statusReq'.served, a, b) =>
                 statusReq'.served[a].view = statusReq'.served[b].view]_vars

\* the order was polled twice while its second step was retrying, with no
\* write in between, and both responses report the WMS stage at 33 percent
C18_Witness ==
    /\ Len(statusReq.served) = 2
    /\ NoWriteBetween(statusReq.served, 1, 2)
    /\ statusReq.served[1].view = statusReq.served[2].view
    /\ statusReq.served[1].view.ok
    /\ statusReq.served[2].view.currentStage = "WMS_PROCESSING"
    /\ statusReq.served[2].view.percentage = 33
    /\ \E i \in Started : hist[i].attempts[2] >= 2 /\ now > 0

\* C19: when a compensation action fails (each one does: the table rejects
\* its status), the compensations of the remaining steps are still invoked,
\* latest step first, the failure is not rethrown, and the order ends FAILED
\* with the details of the step's own error recorded with that status.
C19_CompensationFailureKeepsStepError ==
    \A i \in Exhausted :
        LET k == hist[i].exhausted
            row == db[saga[i].order]
        IN (k >= 2 /\ Ended(i)) =>
               /\ hist[i].compLog = [j \in 1..(k - 1) |-> k - j]
               /\ row.status = "FAILED"
               /\ FailedEventData(row) =
                      FailureData(TerminalErrorOf(i, MAX_RETRY_ATTEMPTS + 1))

\* saga i makes a retry of step k: an attempt that is not the step's first
Retries(i, k) == Attempts(i, k) /\ hist[i].attempts[k] >= 1

\* C20: a circuit that is open when a retry of a step comes up does not end
\* the step's retry sequence: the retry is made once its backoff delay has
\* elapsed, checks availability again, fails fast without a downstream call,
\* and uses up one attempt of the budget; the next retry is scheduled unless
\* the budget is spent.
C20_OpenCircuitDoesNotAbortRetries ==
    [][\A i \in SagaIds, k \in Steps :
          (CircuitOpen(StepService(k)) /\ Retries(i, k)) =>
              /\ saga[i].pc = "sleeping"
              /\ Len(hist[i].delays) = saga[i].retryCount + 1
              /\ now >= saga[i].wakeAt
              /\ hist'[i].calls[k] = hist[i].calls[k]
              /\ hist'[i].fastFails = hist[i].fastFails + 1
              /\ saga'[i].lastError = CircuitOpenError
              /\ saga'[i].retryCount = saga[i].retryCount + 1
              /\ hist'[i].attempts[k] = saga'[i].retryCount + 1
              /\ IF saga'[i].retryCount < MAX_RETRY_ATTEMPTS
                 THEN saga'[i].pc = "emitRetry" /\ hist'[i].exhausted = 0
                 ELSE hist'[i].exhausted = k]_vars

\* the only order's own three failed calls opened the circuit of WMS; its
\* 4th and 5th attempts were rejected by the open circuit, the 6th came
\* after the cooldown and was sent to the service
C20_Witness ==
    \E i \in Started :
        /\ clients = {"o1"}
        /\ recoveriesLeft = MaxRecoveries
        /\ saga[i].step = 2
        /\ saga[i].pc = "inCall"
        /\ hist[i].attempts[2] = MAX_RETRY_ATTEMPTS + 1
        /\ hist[i].calls[2] = 4
        /\ hist[i].fastFails = 2
        /\ Len(hist[i].delays) = MAX_RETRY_ATTEMPTS

\* saga i gets the result of step k from a call that was a retry
ReturnsAfterRetry(i, k) ==
    /\ saga[i].pc = "inCall"
    /\ saga[i].step = k
    /\ saga[i].retryCount >= 1
    /\ saga'[i].pc = "persistStep"

\* step k of saga i succeeded on a retry
SucceededOnRetry(i, k) ==
    /\ \E n \in 1..Len(saga[i].completedSteps) : saga[i].completedSteps[n] = k
    /\ hist[i].attempts[k] >= 2

\* the saga went on after step k: the next step was attempted, or, after the
\* last step, READY_FOR_DELIVERY was persisted
WentOn(i, k) ==
    IF NextStep(k) \in Steps THEN hist[i].attempts[NextStep(k)] >= 1
    ELSE db[saga[i].order].ready_for_delivery_at # <<>>

\* C21: when a step's call fails j times (1 <= j <= 5) and then succeeds,
\* the success is returned after exactly j + 1 attempts and no further
\* attempt of the step is made, the service's breaker is left available with
\* no consecutive failure and no last failure, no compensation is invoked,
\* and the saga proceeds to the next step.
C21_RetrySuccessProceeds ==
    [][\A i \in SagaIds, k \in Steps :
          /\ ReturnsAfterRetry(i, k) =>
                 /\ hist'[i].attempts[k] = saga[i].retryCount + 1
                 /\ hist'[i].attempts[k] <= MAX_RETRY_ATTEMPTS + 1
                 /\ serviceHealth'[StepService(k)] = HealthInit
                 /\ hist'[i].compLog = <<>>
                 /\ saga'[i].completedSteps = Append(saga[i].completedSteps, k)
          /\ SucceededOnRetry(i, k) =>
                 hist'[i].attempts[k] = hist[i].attempts[k]
          /\ (SucceededOnRetry(i, k)' /\ Ended(i)') => WentOn(i, k)']_vars

\* the positions of an event type among the events published for an order
Positions(events, eventType) ==
    {n \in 1..Len(events) : events[n] = eventType}

\* the events that belong to step k: started, retry scheduled, completed
EventsOfStep(k) == {StepStartedEvent(k), RetryEvent(k), StepStatus(k)}

TerminalEvents == {"ORDER_READY_FOR_DELIVERY", "ORDER_FAILED"}

\* C22: the events of one order are published in causal order: the completed
\* event of step N is published once, after step N's result and timestamp
\* are persisted and before every event of step N + 1, and a terminal event
\* (ORDER_READY_FOR_DELIVERY, ORDER_FAILED) is the last event of the order.
C22_EventsInCausalOrder ==
    \A o \in Orders :
        LET events == published[o]
        IN /\ \A k \in Steps :
                 /\ Cardinality(Positions(events, StepStatus(k))) <= 1
                 /\ Positions(events, StepStatus(k)) # {} =>
                        StepRecorded(db[o], k)
           /\ \A k \in Steps \ {totalSteps}, m \in 1..Len(events) :
                 events[m] \in EventsOfStep(k + 1) =>
                     \E n \in Positions(events, StepStatus(k)) : n < m
           /\ \A n \in 1..Len(events) :
                 events[n] \in TerminalEvents => n = Len(events)

\* an order processed to its end with a retry of its second step: its events
\* from acceptance to ORDER_READY_FOR_DELIVERY
C22_Witness ==
    \E o \in Orders :
        published[o] =
            <<"ORDER_ACCEPTED", "DISTRIBUTED_TRANSACTION_START",
              "CMS_VERIFICATION_STARTED", "CMS_VERIFIED",
              "WMS_REGISTRATION_STARTED", "WMS_RETRY_SCHEDULED",
              "WMS_REGISTERED", "ROS_OPTIMIZATION_STARTED", "ROS_OPTIMIZED",
              "ORDER_READY_FOR_DELIVERY">>

\* saga i is suspended in a backoff sleep or in a downstream call
Suspended(i) == saga[i].pc \in {"sleeping", "inCall"}

\* the continuation of saga j that is ready to run
SagaStep(j) ==
    \/ SagaBegin(j)
    \/ \E ok \in BOOLEAN : EmitStarted(j, ok)
    \/ CallReturns(j)
    \/ \E ok \in BOOLEAN : EmitRetry(j, ok)
    \/ CompensationDone(j)
    \/ \E ok \in BOOLEAN : EmitCompensated(j, ok)
    \/ PersistStep(j)
    \/ \E ok \in BOOLEAN : EmitStepDone(j, ok)
    \/ PersistReady(j)
    \/ \E ok \in BOOLEAN : EmitReady(j, ok)
    \/ PersistFailed(j)
    \/ \E ok \in BOOLEAN : EmitFailed(j, ok)

\* the next step of the POST /api/orders handler for client o
RequestStep(o) ==
    \/ \E p \in Payloads : SubmitOrder(o, p)
    \/ CreateOrderDone(o)
    \/ \E ok \in BOOLEAN : EmitAccepted(o, ok)
    \/ \E ok \in BOOLEAN : EmitStart(o, ok)
    \/ RespondAccepted(o)

\* C23: while the saga of one order is suspended in a backoff sleep or a
\* downstream call, every other saga can take its next step (a sleeping one
\* as soon as its own timer is due), a START event waiting in the topic can
\* be consumed, and the submit and status request paths can take their next
\* step: nothing waits for another order's sleep.
C23_SleepStallsNobody ==
    \A i \in SagaIds :
        Suspended(i) =>
            /\ \A j \in SagaIds \ {i} :
                  /\ saga[j].pc \notin {"free", "done", "sleeping"} =>
                         ENABLED SagaStep(j)
                  /\ (saga[j].pc = "sleeping" /\ now >= saga[j].wakeAt) =>
                         ENABLED WakeUp(j)
            /\ \A o \in pending : ENABLED ConsumeStart(o)
            /\ \A o \in clients :
                  /\ reqPc[o] # "done" => ENABLED RequestStep(o)
                  /\ ENABLED StatusGetOrder(o)

\* one order sleeps before a retry whose timer is not due while the other
\* order's START event waits in the topic
C23_Witness ==
    \E i \in SagaIds, o \in pending :
        /\ saga[i].pc = "sleeping"
        /\ now < saga[i].wakeAt
        /\ saga[i].order # o
        /\ reqPc[o] = "startAcked"

\* C24: invoking a step's downstream operation again for the same order
\* leaves the downstream system as one invocation does: after any number of
\* registrations the WMS inventory is the one a single registration leaves,
\* and after any number of optimizations the ROS fleet is the one a single
\* optimization leaves.
C24_InvokedAgainSameAsOnce ==
    /\ Len(downstream.registered) >= 1 =>
           downstream.inventory =
               registerPackages(downstream.inventory0,
                                downstream.order.packages).inventory
    /\ Len(downstream.optimized) >= 1 =>
           downstream.fleet =
               optimizeRoute(vehicleFleet, downstream.order).fleet

\* C25: recordServiceSuccess, and so a manual recovery of a known service,
\* leaves the service's breaker entry available with no consecutive failure
\* and no last failure, whatever the entry was, and applying it twice gives
\* what applying it once gives.
C25_SuccessResetsBreaker ==
    [][/\ \A svc \in Services :
             LET once == recordServiceSuccess(serviceHealth[svc])
             IN /\ once = [available |-> TRUE, lastFailure |-> <<>>,
                           consecutiveFailures |-> 0]
                /\ recordServiceSuccess(once) = once
       /\ recoveriesLeft' # recoveriesLeft =>
             \E svc \in Services :
                 serviceHealth' =
                     [serviceHealth EXCEPT
                        ![svc] = [available |-> TRUE, lastFailure |-> <<>>,
                                  consecutiveFailures |-> 0]]
       /\ \A i \in SagaIds :
             (saga[i].pc = "inCall" /\ saga'[i].pc = "persistStep") =>
                 serviceHealth'[StepService(saga[i].step)] =
                     [available |-> TRUE, lastFailure |-> <<>>,
                      consecutiveFailures |-> 0]]_vars

\* an operator recovered the service whose open circuit had rejected the
\* order's attempts: the entry is as at start-up while the order still
\* sleeps before its next retry
C25_Witness ==
    \E i \in Started :
        LET k == saga[i].step
        IN /\ clients = {"o1"}
           /\ recoveriesLeft = 0
           /\ saga[i].pc = "sleeping"
           /\ hist[i].calls[k] = CIRCUIT_BREAKER_THRESHOLD
           /\ hist[i].fastFails >= 1
           /\ serviceHealth[StepService(k)] = HealthInit

\* a step in which the saga of order o comes back from a write to the table
SagaWrites(o) ==
    \E i \in SagaIds :
        /\ saga[i].order = o
        /\ saga[i].pc \in {"persistStep", "persistReady", "persistFailed",
                           "compensating"}
        /\ saga'[i] # saga[i]

\* a step in which the driver service's update of order o settles: it sets
\* the status it was asked for and records the event, nothing else
DriverWrites(o) ==
    /\ driverReq[o] # NULL
    /\ driverReq'[o] = NULL
    /\ db'[o].status = driverReq[o]
    /\ [db'[o] EXCEPT !.status = db[o].status, !.events = db[o].events] = db[o]

\* C26: once created, an order's row is never deleted and its recorded
\* events are never removed; it is changed only by the saga of that order
\* (its compensation included) and by the driver service's delivery-status
\* update, which changes the status and adds an event and leaves every
\* result field and timestamp as it was.
C26_RowChangedBySagaOrDriver ==
    [][\A o \in Rows :
          /\ db'[o] # NoRow
          /\ Len(db'[o].events) >= Len(db[o].events)
          /\ SubSeq(db'[o].events, 1, Len(db[o].events)) = db[o].events
          /\ db'[o] # db[o] => SagaWrites(o) \/ DriverWrites(o)]_vars

\* the order was processed by its saga and then updated twice by the driver
\* service: its status is DELIVERED, its step results are those of the saga
C26_Witness ==
    \E o \in Rows :
        /\ db[o].status = "DELIVERED"
        /\ DeliveryUpdates(db[o]) = 2
        /\ StepsDone(db[o]) = Steps
        /\ \A k \in Steps : StepRecorded(db[o], k)

\* C26 as stated: after its creation the row, its status included, is
\* changed by the saga of the order only
C26_RowChangedBySagaOnly ==
    [][\A o \in Rows :
          /\ db'[o] # NoRow
          /\ db'[o] # db[o] => SagaWrites(o)]_vars

\* the sagas that ran step k of order o to completion
Executions(o, k) ==
    {i \in SagaIds :
        /\ saga[i].order = o
        /\ (\E n \in 1..Len(saga[i].completedSteps) : saga[i].completedSteps[n] = k)}

\* C27: the start event of an order delivered more than once starts at most
\* one saga for that order: no step of the order is executed by two sagas
\* and the completed event of a step, published after its result fields and
\* timestamp are written, appears at most once.
C27_RedeliveryRunsOnce ==
    \A o \in Orders :
        /\ Cardinality({i \in Started : saga[i].order = o}) <= 1
        /\ \A k \in 1..totalSteps :
              /\ Cardinality(Executions(o, k)) <= 1
              /\ Cardinality(Positions(published[o], StepStatus(k))) <= 1

\* the number of retry notifications of step k among the events of order o
Notifications(events, k) == Cardinality(Positions(events, RetryEvent(k)))

\* saga i starts a backoff sleep in this step
SleepBegins(i) == saga[i].pc # "sleeping" /\ saga'[i].pc = "sleeping"

\* C28: a backoff sleep begins only after a failed attempt that has retries
\* left, and the step that starts it publishes exactly one RETRY_SCHEDULED
\* notification of the step and sets the wake-up time to the delay of the
\* attempt count; a notification is published by nothing else, so a step's
\* notifications are as many as its backoff sleeps, at most
\* MAX_RETRY_ATTEMPTS, and the final attempt of an exhausted step has none.
C28_OneNotificationPerSleep ==
    [][/\ \A i \in SagaIds :
             SleepBegins(i) =>
                 LET s == saga[i]
                 IN /\ s.pc = "emitRetry"
                    /\ s.lastError # NoError
                    /\ s.retryCount < MAX_RETRY_ATTEMPTS
                    /\ published'[s.order] =
                          Append(published[s.order], RetryEvent(s.step))
                    /\ saga'[i].wakeAt =
                          now + RETRY_DELAY_MS * (2 ^ s.retryCount)
                    /\ saga'[i].retryCount = s.retryCount
                    /\ Len(hist'[i].delays) = Len(hist[i].delays) + 1
       /\ \A o \in Orders, k \in Steps :
             Notifications(published'[o], k) # Notifications(published[o], k)
                 => /\ Notifications(published'[o], k)
                          = Notifications(published[o], k) + 1
                    /\ \E i \in SagaIds :
                          /\ saga[i].pc = "emitRetry"
                          /\ saga[i].order = o
                          /\ saga[i].step = k
                          /\ SleepBegins(i)
       /\ \A i \in SagaIds :
             saga'[i].pc # "free" =>
                 LET o == saga'[i].order
                     k == saga'[i].step
                 IN /\ \A j \in Steps :
                          Notifications(published'[o], j) <= MAX_RETRY_ATTEMPTS
                    /\ (saga'[i].pc \in {"emitRetry", "sleeping", "inCall"}) =>
                          /\ Notifications(published'[o], k)
                                = Len(hist'[i].delays)
                          /\ Len(hist'[i].delays) = saga'[i].retryCount
                                + (IF saga'[i].pc = "sleeping" THEN 1 ELSE 0)
                    /\ hist'[i].exhausted # 0 =>
                          /\ Notifications(published'[o], hist'[i].exhausted)
                                = MAX_RETRY_ATTEMPTS
                          /\ hist'[i].attempts[hist'[i].exhausted]
                                = MAX_RETRY_ATTEMPTS + 1
      ]_vars

\* a step ran out of retries: 6 attempts, 5 notifications; and an earlier
\* step of the same order was retried once
C28_Witness ==
    \E i \in Exhausted :
        /\ hist[i].exhausted = 2
        /\ hist[i].attempts[2] = MAX_RETRY_ATTEMPTS + 1
        /\ Notifications(published[saga[i].order], 2) = MAX_RETRY_ATTEMPTS
        /\ Notifications(published[saga[i].order], 1) = 1

\* C29: a step is completed only on an adapter result whose ok is true: a
\* saga that holds a result with ok = false has not recorded the step as
\* completed, registered no compensation for it and does not go on to
\* persist its stage.
C29_StepCompletedOnlyIfOk ==
    \A i \in Started :
        ~resultOk[i] =>
            /\ saga[i].pc # "persistStep"
            /\ saga[i].completedSteps = <<>>
            /\ saga[i].compensationActions = <<>>

\* C30: the compensation list of a saga holds exactly the steps that have
\* succeeded, in completion order: it equals the list of completed steps,
\* has no duplicates and at most 3 entries, and it grows only by the step
\* whose adapter call has just returned a result with ok = true, never by a
\* step that failed or has not run.
C30_CompensationListIsSucceededSteps ==
    [][\A i \in SagaIds :
          LET was == saga[i].compensationActions
              is == saga'[i].compensationActions
          IN /\ Len(is) <= totalSteps
             /\ \A m, n \in 1..Len(is) : m < n => is[m] < is[n]
             /\ is = saga'[i].completedSteps
             /\ is # was =>
                   \/ saga'[i].pc \in {"free", "scheduled"} /\ is = <<>>
                   \/ /\ saga[i].pc = "inCall"
                      /\ is = Append(was, saga[i].step)
                      /\ hist[i].calls[saga[i].step] >= 1
                      /\ resultOk'[i]
      ]_vars

\* saga i records a failure of its step's service in this step: its
\* downstream call threw, or its attempt was rejected by the open circuit
RecordsFailure(i) ==
    \/ saga[i].pc = "inCall" /\ saga'[i].pc \notin {"inCall", "persistStep"}
    \/ hist'[i].fastFails = hist[i].fastFails + 1

\* C31: breaker updates are atomic per service: every failure a saga
\* records adds exactly 1 to the consecutive-failure count of its step's
\* service, whatever the other sagas did before it, so N failures with no
\* success or reset in between add N; and a step that changes the entry of
\* one service leaves the entries of the other services as they were.
C31_BreakerUpdatesAtomic ==
    [][/\ \A i \in SagaIds :
             RecordsFailure(i) =>
                 LET svc == StepService(saga[i].step)
                 IN /\ serviceHealth'[svc].consecutiveFailures
                          = serviceHealth[svc].consecutiveFailures + 1
                    /\ serviceHealth'[svc].lastFailure = <<now>>
       /\ \A svc \in Services :
             serviceHealth'[svc] # serviceHealth[svc] =>
                 \A other \in Services \ {svc} :
                     serviceHealth'[other] = serviceHealth[other]
      ]_vars

\* two sagas each failed their first call of the same service, one after
\* the other with nothing in between: the count is 2
C31_Witness ==
    /\ \A i \in SagaIds :
          /\ saga[i].pc = "emitRetry"
          /\ saga[i].step = 1
          /\ hist[i].attempts[1] = 1
    /\ saga[1].order # saga[2].order
    /\ serviceHealth["cms"].consecutiveFailures = 2
    /\ serviceHealth["cms"].available

\* saga i waits for the answer to a downstream call
AwaitsCall(i) == saga[i].pc \in {"inCall", "hung"}

\* C32: every downstream call attempt completes within a bounded time,
\* whatever the service does: a saga that waits for the answer to a call
\* eventually stops waiting for it.
C32_CallCompletes ==
    \A i \in SagaIds : AwaitsCall(i) ~> ~AwaitsCall(i)

\* the number of times the compensation of step k was invoked in run i
Compensations(i, k) == Cardinality(Positions(hist[i].compLog, k))

\* C33: when the coordinator has persisted FAILED for an order, whatever
\* aborted the run, the compensation of every step in the saga's completed
\* list has been invoked exactly once.
C33_FailedOnlyAfterCompensation ==
    \A i \in Started :
        saga[i].pc = "emitFailed" =>
            \A n \in 1..Len(saga[i].completedSteps) :
                Compensations(i, saga[i].completedSteps[n]) = 1

\* C34: for each service the availability flag is false exactly when the
\* count of consecutive failures is at least 3, and a service whose flag is
\* false has the time of its last failure recorded.
C34_FlagFalseIffThreshold ==
    \A svc \in Services :
        LET h == serviceHealth[svc]
        IN /\ ~h.available <=>
                 h.consecutiveFailures >= CIRCUIT_BREAKER_THRESHOLD
           /\ ~h.available => h.lastFailure # <<>>

\* a circuit that opened at 3 failures took a 4th, rejected, failure; and
\* another service was reset after its cooldown and has failed once since
C34_Witness ==
    \E svc, other \in Services :
        /\ ~serviceHealth[svc].available
        /\ serviceHealth[svc].consecutiveFailures = CIRCUIT_BREAKER_THRESHOLD + 1
        /\ serviceHealth[other].available
        /\ serviceHealth[other].consecutiveFailures = 1
        /\ \E i \in Started : /\ StepService(saga[i].step) = other
                              /\ hist[i].fastFails > 0

\* the attempt saga i makes in this step is rejected by the open circuit
RejectedByOpenCircuit(i) == hist'[i].fastFails = hist[i].fastFails + 1

\* C35: an attempt rejected by the open circuit does not change the time of
\* the service's last failure, so the circuit reopens no later than the
\* cooldown after the failed downstream call that opened it, whatever the
\* sagas attempt in between.
C35_RejectedAttemptKeepsLastFailure ==
    [][\A i \in SagaIds :
          RejectedByOpenCircuit(i) =>
              LET svc == StepService(saga[i].step)
              IN serviceHealth'[svc].lastFailure
                    = serviceHealth[svc].lastFailure
      ]_vars

\* C36: a service whose circuit is open becomes available again only by the
\* expiry of its cooldown, found by isServiceAvailable, or by an explicit
\* recovery: while the cooldown runs, a step that sets the flag back is a
\* recovery, never the return of a downstream call.
C36_OpenCircuitClosedOnlyByRecovery ==
    [][\A svc \in Services :
          (CircuitOpen(svc) /\ serviceHealth'[svc].available) =>
              /\ recoveriesLeft' = recoveriesLeft - 1
              /\ \A i \in SagaIds : saga'[i] = saga[i]
      ]_vars

\* the terminal events among the events published for order o
TerminalsOf(events) == {n \in 1..Len(events) : events[n] \in TerminalEvents}

\* the terminal status an event announces
StatusOfEvent(eventType) ==
    IF eventType = "ORDER_READY_FOR_DELIVERY" THEN "READY_FOR_DELIVERY"
    ELSE "FAILED"

\* saga i leaves processDistributedTransaction in this step
Ends(i) == saga[i].pc # "done" /\ saga'[i].pc = "done"

HealthAnswered == healthReq'.calls = healthReq.calls + 1

\* C38: the health summary reports the stored flag of each service and
\* leaves the registry as it is: a service reported available would pass an
\* attempt made at that moment, and a service reported circuit_open would
\* fail one fast unless its cooldown has elapsed with no attempt since, in
\* which case the attempt would reset the circuit and pass.
C38_HealthReportsStoredFlag ==
    [][HealthAnswered =>
          /\ serviceHealth' = serviceHealth
          /\ \A svc \in Services :
                LET h == serviceHealth[svc]
                    r == healthReq'.report[1].services[svc]
                IN /\ r.status = "circuit_open" <=> ~h.available
                   /\ r.status = "available" => isServiceAvailable(h, now)
                   /\ ~isServiceAvailable(h, now) => r.status = "circuit_open"
                   /\ (r.status = "circuit_open" /\ isServiceAvailable(h, now))
                         <=> CooledDown(svc)
                   /\ r.consecutiveFailures = h.consecutiveFailures
                   /\ r.lastFailure = h.lastFailure
      ]_vars

\* the summary was asked for after a cooldown elapsed and before the next
\* attempt: it says circuit_open for a service that an attempt would pass
C38_Witness ==
    /\ healthReq.report # <<>>
    /\ \E svc \in Services :
          /\ CooledDown(svc)
          /\ healthReq.report[1].services[svc].status = "circuit_open"
          /\ healthReq.report[1].services[svc].lastFailure
                = serviceHealth[svc].lastFailure

\* C38 as stated: the summary says circuit_open exactly when an attempt made
\* at that moment would be failed fast
C38_ReportAgreesWithIsAvailable ==
    [][HealthAnswered =>
          \A svc \in Services :
              healthReq'.report[1].services[svc].status = "circuit_open"
                 <=> ~isServiceAvailable(serviceHealth[svc], now)
      ]_vars

\* the errors named retryable: HTTP 408, 429, 500, 502, 503, 504, and the
\* codes ECONNRESET and ETIMEDOUT
NamedRetryable(error) ==
    \/ error.status \in {<<408>>, <<429>>, <<500>>, <<502>>, <<503>>, <<504>>}
    \/ error.code \in {"ECONNRESET", "ETIMEDOUT"}

\* C39: one invocation of makeRequestWithRetry issues at most 3 requests;
\* it retries only after an error named retryable, waiting 2000 ms before
\* the second request and 4000 ms before the third; an error that is not
\* retryable, and the error of the third request, is rethrown at once, so a
\* first error that is not retryable ends the invocation after one request.
C39_RosAdapterRetriesAtMostThrice ==
    LET c == rosCall
        n == Len(c.errors)
    IN c.pc # "idle" =>
          /\ c.requests <= 3
          /\ c.requests = c.attempt
          /\ c.requests = n + (IF c.pc \in {"request", "resolved"} THEN 1 ELSE 0)
          /\ Len(c.delays) <= 2
          /\ \A d \in 1..Len(c.delays) : c.delays[d] = <<2000, 4000>>[d]
          /\ Len(c.delays) = c.requests - (IF c.pc = "backoff" THEN 0 ELSE 1)
          /\ \A m \in 1..n :
                (m < n \/ c.pc = "backoff") => NamedRetryable(c.errors[m])
          /\ c.pc = "rejected" =>
                \/ ~NamedRetryable(c.errors[n])
                \/ c.requests = 3
          /\ (n >= 1 /\ ~NamedRetryable(c.errors[1])) =>
                c.pc = "rejected" /\ c.requests = 1
          /\ (n >= 1 /\ NamedRetryable(c.errors[n]) /\ c.requests < 3) =>
                c.pc # "rejected"

\* three requests, each failed with a retryable error: the third error is
\* rethrown after delays of 2000 and 4000 ms
C39_Witness ==
    /\ rosCall.pc = "rejected"
    /\ rosCall.requests = 3
    /\ rosCall.delays = <<2000, 4000>>
    /\ \A m \in 1..3 : NamedRetryable(rosCall.errors[m])
    /\ rosCall.errors[1].code = "ETIMEDOUT"
    /\ rosCall.errors[3].status = <<503>>

\* the WMS answers a registration with 409 INVENTORY_SHORTAGE in this step
RegistrationRejected ==
    /\ Len(downstream'.registered) = Len(downstream.registered) + 1
    /\ downstream'.registered[Len(downstream'.registered)] = 409

\* C40: a registration the WMS rejects with 409 because a package is out of
\* stock leaves the inventory as it was: the available and the reserved
\* quantity of every SKU are those before the request.
C40_RejectedRegistrationKeepsInventory ==
    [][RegistrationRejected => downstream'.inventory = downstream.inventory
      ]_vars

====
